---- MODULE Spec2Model ----
(***************************************************************************)
(* Message reconciliation and recipient resolution of the ngx-chat Matrix  *)
(* adapter.                                                                *)
(*                                                                         *)
(*   Spec      one MessageStore driven by arbitrary addMessage calls       *)
(*             (libs/ngx-chat-shared/src/interface/message-store.ts)       *)
(*   SpecChat  MatrixMessageService (send path, ingestion pipeline) on top *)
(*             of MatrixContactListService and MatrixRoomService, run by   *)
(*             a JavaScript event loop: a synchronous handler runs to its  *)
(*             end, then the microtask queue drains in FIFO order, then    *)
(*             the next macrotask (event delivery, network reply) starts.  *)
(***************************************************************************)
EXTENDS Integers, Sequences, FiniteSets, TLC

(***************************************************************************)
(* Bounds                                                                  *)
(***************************************************************************)
\* number of distinct message ids offered to a store
NumIds == 2
\* datetimes are the millisecond values 0..MaxTime; 0 is the epoch
MaxTime == 2

\* incoming events the server can deliver, and event ids it can assign to sends
NumIncoming == 1
NumSends == 1
\* events handed to the timeline handler in one synchronous burst
MaxBatch == 2
\* Contact and Room objects constructed in one session
MaxRecipients == 2
\* completed runs of loadContacts
MaxLoads == 1
\* sendMessage calls waiting for the network at one time
MaxPending == 1

IdName == <<"a", "b", "c", "d", "e", "f">>
Ids == {IdName[i] : i \in 1..NumIds}
\* an absent or empty id
NoId == ""
Times == 0..MaxTime

(***************************************************************************)
(* Message: the fields of the shared Message interface that the store and  *)
(* the services read or write.                                             *)
(***************************************************************************)
Payloads ==
  { [body |-> "hi", direction |-> "in"], [body |-> "edited", direction |-> "out"] }

Message(id, t, p) ==
  [id |-> id, datetime |-> t, body |-> p.body, direction |-> p.direction]

\* An argument of addMessage is <<>> (null / undefined) or <<m>>.
Missing == <<>>
ValidMessages == {Message(i, t, p) : i \in Ids, t \in Times, p \in Payloads}
IdlessMessages == {Message(NoId, t, p) : t \in {1}, p \in Payloads}
MessageInputs == {Missing} \cup {<<m>> : m \in ValidMessages \cup IdlessMessages}

\* JavaScript truthiness of a string and of a number
TruthyStr(s) == s # ""
TruthyNum(n) == n # 0

Max(S) == CHOOSE x \in S : \A y \in S : y <= x
Min(S) == CHOOSE x \in S : \A y \in S : x <= y

(***************************************************************************)
(* MessageStore                                                            *)
(*   messages            the ordered array                                 *)
(*   messageIdToMessage  the Map id -> message                             *)
(*   messagesSubject     the ReplaySubject: the number of next() calls and *)
(*                       the array copy handed to the latest one           *)
(***************************************************************************)
EmptyIndex == [i \in {} |-> Missing]

NewMessageStore ==
  [ messages |-> <<>>,
    messageIdToMessage |-> EmptyIndex,
    messagesSubject |-> [count |-> 0, last |-> <<>>] ]

\* messages.find(m => m.id === id) followed by messages.indexOf(found):
\* the first position holding the id, 0 when there is none
findById(msgs, id) ==
  LET hits == {i \in 1..Len(msgs) : msgs[i].id = id}
  IN  IF hits = {} THEN 0 ELSE Min(hits)

\* the scan from the tail: the last position i whose getTime() and the new
\* getTime() are both truthy and ordered, 0 when the loop ends without a hit
scanFromTail(msgs, m) ==
  LET hits == {i \in 1..Len(msgs) :
                 /\ TruthyNum(msgs[i].datetime)
                 /\ TruthyNum(m.datetime)
                 /\ msgs[i].datetime <= m.datetime}
  IN  IF hits = {} THEN 0 ELSE Max(hits)

\* messages.splice(i + 1, 0, m), and messages.unshift(m) for i = 0
spliceAfter(msgs, i, m) ==
  SubSeq(msgs, 1, i) \o <<m>> \o SubSeq(msgs, i + 1, Len(msgs))

mapSet(map, id, m) ==
  [k \in DOMAIN map \cup {id} |-> IF k = id THEN m ELSE map[k]]

\* emitMessages: next([...this.messages])
emitMessages(st) ==
  [st EXCEPT !.messagesSubject =
     [count |-> st.messagesSubject.count + 1, last |-> st.messages]]

\* the store's own array handed out
snapshotOf_sameArray(msgs, n) == [ref |-> 0, value |-> msgs]

\* [...this.messages]: the n-th array created for emission, holding the
\* entries of messages at this moment; ref 0 is this.messages itself
snapshotOf(msgs, n) == [ref |-> n, value |-> msgs]

\* nothing emitted, no timer set; deferred tells whether emitMessages also
\* sets a timer for a second emission (the revision of unnamed/part_000)
NoSnapshots(deferred) == [log |-> <<>>, timers |-> 0, deferred |-> deferred]

\* new ReplaySubject<Message[]>(50): the window of snapshots kept for replay
BufferSize == 50

\* ReplaySubject.next(value): the buffer keeps the latest BufferSize values
bufferNext(buffer, value) ==
  LET all == Append(buffer, value)
  IN  IF Len(all) > BufferSize THEN SubSeq(all, Len(all) - BufferSize + 1, Len(all))
      ELSE all

\* a stream that offers no initial value to a new subscriber
startWith_absent(first, buffer) == buffer

\* messagesSubject.pipe(startWith([])) at subscription: the initial value,
\* then the replayed buffer
startWith(first, buffer) == <<first>> \o buffer

\* hasId looked up by the message object instead of its id: never a hit
hasId_byObject(st, id) == FALSE

\* the id guard of addMessage: the index decides whether the id is known
hasId(st, id) == id \in DOMAIN st.messageIdToMessage

\* isNewer with >= for >
isNewer_orEqual(m, old) == m.datetime >= old.datetime

\* the update guard: the incoming datetime is strictly newer
isNewer(m, old) == m.datetime > old.datetime

\* updateExisting that sets the index entry and leaves the array entry
updateExisting_indexOnly(st, m) ==
  LET index == findById(st.messages, m.id)
  IN  IF index # 0 /\ isNewer(m, st.messages[index])
      THEN [ store   |-> emitMessages(
                           [st EXCEPT !.messageIdToMessage = mapSet(@, m.id, m)]),
             outcome |-> "updated" ]
      ELSE [store |-> st, outcome |-> "stale"]

\* updateExisting that takes the old version out and puts the new one where
\* its datetime belongs
updateExisting_reordered(st, m) ==
  LET index == findById(st.messages, m.id)
      rest == SelectSeq(st.messages, LAMBDA x : x.id # m.id)
  IN  IF index # 0 /\ isNewer(m, st.messages[index])
      THEN [ store   |-> emitMessages(
                           [st EXCEPT !.messages = spliceAfter(rest, scanFromTail(rest, m), m),
                                      !.messageIdToMessage = mapSet(@, m.id, m)]),
             outcome |-> "updated" ]
      ELSE [store |-> st, outcome |-> "stale"]

\* updateExisting that replaces the array entry and leaves the index entry
updateExisting_arrayOnly(st, m) ==
  LET index == findById(st.messages, m.id)
  IN  IF index # 0 /\ isNewer(m, st.messages[index])
      THEN [ store   |-> emitMessages([st EXCEPT !.messages[index] = m]),
             outcome |-> "updated" ]
      ELSE [store |-> st, outcome |-> "stale"]

\* existing id: replace at the existing index when strictly newer
updateExisting(st, m) ==
  LET index == findById(st.messages, m.id)
  IN  IF index # 0 /\ isNewer(m, st.messages[index])
      THEN [ store   |-> emitMessages(
                           [st EXCEPT !.messages[index] = m,
                                      !.messageIdToMessage = mapSet(@, m.id, m)]),
             outcome |-> "updated" ]
      ELSE [store |-> st, outcome |-> "stale"]

\* insertNew without the index update
insertNew_notIndexed(st, m) ==
  [ store   |-> emitMessages(
                  [st EXCEPT !.messages = spliceAfter(@, scanFromTail(@, m), m)]),
    outcome |-> "inserted" ]

\* new id: insert in chronological order, index it, emit
insertNew(st, m) ==
  [ store   |-> emitMessages(
                  [st EXCEPT !.messages = spliceAfter(@, scanFromTail(@, m), m),
                             !.messageIdToMessage = mapSet(@, m.id, m)]),
    outcome |-> "inserted" ]

\* isInvalid without the id test
isInvalid_nullOnly(arg) == arg = Missing

\* the entry guard: !message || !message.id
isInvalid(arg) == arg = Missing \/ ~TruthyStr(arg[1].id)

\* addMessage(message): the new store and which branch ran
addMessage(st, arg) ==
  IF isInvalid(arg)
  THEN [store |-> st, outcome |-> "invalid"]
  ELSE IF hasId(st, arg[1].id)
       THEN updateExisting(st, arg[1])
       ELSE insertNew(st, arg[1])

\* findLast(arr, predicate) with the predicate msg.direction === d: the last
\* entry of that direction, Missing (undefined) when there is none
findLast(msgs, d) ==
  LET hits == {i \in 1..Len(msgs) : msgs[i].direction = d}
  IN  IF hits = {} THEN Missing ELSE <<msgs[Max(hits)]>>

\* the getters: messages[0], messages[length - 1], and findLast by direction
oldestMessage(st) ==
  IF st.messages = <<>> THEN Missing ELSE <<st.messages[1]>>

mostRecentMessage(st) ==
  IF st.messages = <<>> THEN Missing ELSE <<st.messages[Len(st.messages)]>>

mostRecentMessageReceived(st) == findLast(st.messages, "in")

mostRecentMessageSent(st) == findLast(st.messages, "out")

(***************************************************************************)
(* State                                                                   *)
(***************************************************************************)
VARIABLES
  messages,            \* MessageStore.messages
  messageIdToMessage,  \* MessageStore.messageIdToMessage
  messagesSubject,     \* MessageStore.messagesSubject
  lastCall,            \* the latest addMessage call: its argument and branch
  replay,              \* the snapshots the ReplaySubject keeps for late subscribers
  subscribed,          \* whether the observer has subscribed to messages$
  observed,            \* the values messages$ has delivered to the observer
  snapshots,           \* the arrays handed to messagesSubject.next, and the timers set
  recipients,          \* every Contact and Room constructed, by instance number
  contactsSubject,     \* MatrixContactListService.contactsSubject value
  roomsSubject,        \* MatrixRoomService.roomsSubject value
  roomStore,           \* MatrixMessageService.roomStore
  clientRooms,         \* room ids client.getRoom() knows
  timeline,            \* the events of the client's live timelines
  now,                 \* the local clock, Date.now()
  loads,               \* completed loadContacts runs
  syncLoop,            \* calls the running synchronous handler still has to make
  microtasks,          \* continuations ready to run, in FIFO order
  pendingNet,          \* continuations waiting for a network reply
  resolved,            \* <<jid, instance>> for each return of getOrCreateContactById
  sent,                \* [id, rcpt] for each sendMessage that added its echo
  emitted,             \* the signals the latest step emitted, in order
  lastSend,            \* the sendMessage call the latest step settled, if any
  encryptionSupported, \* MatrixMessageService.encryptionSupported
  lastIngest,          \* the handleMatrixMessage run the latest step ended, if any
  backfill,            \* the running history operation: its locals and its await
  tokens,              \* the backward pagination token of each room's live timeline
  roomMembers          \* the joined members of each room as the client holds them

streamVars == <<replay, subscribed, observed, snapshots>>
storeVars == <<messages, messageIdToMessage, messagesSubject, lastCall, streamVars>>
chatVars ==
  <<recipients, contactsSubject, roomsSubject, roomStore, clientRooms, timeline,
    now, loads, syncLoop, microtasks, pendingNet, resolved, sent, emitted, lastSend,
    encryptionSupported, lastIngest, backfill, tokens, roomMembers>>
vars == <<storeVars, chatVars>>

theStore ==
  [ messages |-> messages,
    messageIdToMessage |-> messageIdToMessage,
    messagesSubject |-> messagesSubject ]

NoCall == [arg |-> Missing, outcome |-> "none"]

StoreInit ==
  /\ messages = NewMessageStore.messages
  /\ messageIdToMessage = NewMessageStore.messageIdToMessage
  /\ messagesSubject = NewMessageStore.messagesSubject
  /\ lastCall = NoCall
  /\ replay = <<>>
  /\ subscribed = FALSE
  /\ observed = <<>>
  /\ snapshots = NoSnapshots(FALSE)

AddMessage(arg) ==
  LET r == addMessage(theStore, arg)
  IN  /\ messages' = r.store.messages
      /\ messageIdToMessage' = r.store.messageIdToMessage
      /\ messagesSubject' = r.store.messagesSubject
      /\ lastCall' = [arg |-> arg, outcome |-> r.outcome]

(***************************************************************************)
(* The Matrix client as the services see it                                *)
(***************************************************************************)
Me == "@me"
U1 == "@u1"
U2 == "@u2"
DmRoom == "!dm"
GroupRoom == "!grp"
\* a direct room whose counterpart has not joined, and a room id the client
\* does not know
SoloRoom == "!solo"
GoneRoom == "!gone"
\* the direct room with a second counterpart
Dm2Room == "!dm2"
\* a room of the local user and one other without the direct marker, and a
\* room of two others the local user has not joined
PairRoom == "!pair"
WatchedRoom == "!watched"

\* the room ids of the model, and the joined members of each room when the
\* client starts, in member order
RoomIds == {DmRoom, GroupRoom, SoloRoom, GoneRoom, Dm2Room, PairRoom, WatchedRoom}
joinedAtStart(roomId) ==
  IF roomId = DmRoom THEN <<Me, U1>>
  ELSE IF roomId = Dm2Room THEN <<Me, U2>>
  ELSE IF roomId = SoloRoom THEN <<Me>>
  ELSE IF roomId = PairRoom THEN <<Me, U2>>
  ELSE IF roomId = WatchedRoom THEN <<U1, U2>>
  ELSE <<Me, U1, U2>>

\* sdk.Room.getJoinedMembers(), in member order: the membership the client
\* holds at the time of the call
joinedMembers(roomId) == roomMembers[roomId]

\* sdk.Room.getDMInviter() !== null
hasDMInviter(roomId) == roomId \in {DmRoom, Dm2Room, SoloRoom}

\* parseJid(s).bare().toString(): the address without its resource part
bare(jid) == IF jid = "@u1/web" THEN U1 ELSE jid

IncomingName == <<"$m1", "$m2", "$m3", "$m4">>
SendName == <<"$s1", "$s2", "$s3", "$s4">>
IncomingIds == {IncomingName[i] : i \in 1..NumIncoming}
SendIds == {SendName[i] : i \in 1..NumSends}
\* event.getTs() of an event the server stamped; the local clock's values
ServerTimes == 1..MaxTime

\* a MatrixEvent: getId, getRoomId, getSender, getTs, getType,
\* isDecryptionFailure, isRedacted, getContent (content: "text" for a text
\* body, "empty" for the {} of a redacted event, "" for none)
Event(id, room, sender, ts) ==
  [ id |-> id, room |-> room, sender |-> sender, ts |-> ts,
    type |-> "m.room.message", undecryptable |-> FALSE, redacted |-> FALSE,
    content |-> "text" ]
NoEvent == Event("", "", "", 0)

eventIds(evs) == {e.id : e \in evs}
Range(f) == {f[i] : i \in DOMAIN f}
removeAt(seq, n) == SubSeq(seq, 1, n - 1) \o SubSeq(seq, n + 1, Len(seq))

(***************************************************************************)
(* Recipients: Contact and Room objects, each constructed with its own     *)
(* MessageStore                                                            *)
(***************************************************************************)
NewRecipient(type, jid, by) ==
  [type |-> type, jid |-> jid, madeBy |-> by, messageStore |-> NewMessageStore]

\* getOrCreateMessageStore(recipient).addMessage(m)
storeAdd(rs, i, m) == [rs EXCEPT ![i].messageStore = addMessage(@, <<m>>).store]

\* contacts.find(c => c.jid.bare().toString() === inputJid.bare().toString())
findContact(cs, jid) ==
  LET hits == {i \in 1..Len(cs) : bare(recipients[cs[i]].jid) = bare(jid)}
  IN  IF hits = {} THEN 0 ELSE cs[Min(hits)]

\* getOrCreateRoom(roomId, name): the roomStore entry, constructed when absent
getOrCreateRoom(roomId) ==
  IF roomId \in DOMAIN roomStore
  THEN [recipients |-> recipients, roomStore |-> roomStore, room |-> roomStore[roomId]]
  ELSE [ recipients |-> Append(recipients, NewRecipient("room", roomId, "resolver")),
         roomStore  |-> mapSet(roomStore, roomId, Len(recipients) + 1),
         room       |-> Len(recipients) + 1 ]

canGetOrCreateRoom(roomId) ==
  roomId \in DOMAIN roomStore \/ Len(recipients) < MaxRecipients

\* addRoomToList: replace the entry with the same jid, append otherwise
addRoomToList(list, jid, room) ==
  LET hits == {i \in 1..Len(list) : recipients[list[i]].jid = jid}
  IN  IF hits = {} THEN Append(list, room) ELSE [list EXCEPT ![Min(hits)] = room]

\* the direct marker alone
isDmRoom_markerOnly(roomId) == hasDMInviter(roomId)

\* determineTargetRecipient: explicit direct marker, or two joined members
\* one of whom is the local user
isDmRoom(roomId) ==
  \/ hasDMInviter(roomId)
  \/ /\ Len(joinedMembers(roomId)) = 2
     /\ Me \in Range(joinedMembers(roomId))

\* the first joined member, the local user included
otherMember_orSelf(roomId) == joinedMembers(roomId)[1]

\* joinedMembers.find(m => m.userId !== getUserId()), "" when there is none
otherMember(roomId) ==
  LET ms == joinedMembers(roomId)
      hits == {i \in 1..Len(ms) : ms[i] # Me}
  IN  IF hits = {} THEN "" ELSE ms[Min(hits)]

\* the filter of handleMatrixMessage: !sender || !content || !eventId || !timestamp
hasEssentials(ev) ==
  TruthyStr(ev.sender) /\ TruthyStr(ev.content) /\ TruthyStr(ev.id) /\ TruthyNum(ev.ts)

\* messageBody: the text of a text message, the fallback for content without
\* msgtype and body
messageBody(ev) == IF ev.content = "text" THEN "hi" ELSE "[Unsupported message type]"

isDecryptionFailure(ev) == ev.type = "m.room.encrypted" /\ ev.undecryptable

directionOf(sender) == IF sender = Me THEN "out" ELSE "in"

\* the Message built from a plain event
eventMessage(ev) ==
  [ id |-> ev.id, datetime |-> ev.ts, body |-> messageBody(ev),
    direction |-> directionOf(ev.sender), from |-> ev.sender ]

\* the placeholder built from an undecryptable event
failureMessage(ev) ==
  [ id |-> ev.id, datetime |-> ev.ts, body |-> "[Unable to decrypt message]",
    direction |-> directionOf(ev.sender), from |-> ev.sender ]

\* sendMessage's optimistic message under a placeholder id of its own
newMessage_localId(eventId, t) ==
  [ id |-> "local-" \o ToString(t), datetime |-> t, body |-> "hi", direction |-> "out",
    from |-> Me ]

\* sendMessage's optimistic message: the server's event id, the local clock
newMessage(eventId, t) ==
  [id |-> eventId, datetime |-> t, body |-> "hi", direction |-> "out", from |-> Me]

\* sendMessage's failed-message entry
failedMessage(t) ==
  [ id |-> "failed-" \o ToString(t), datetime |-> t, body |-> "Failed to send",
    direction |-> "out", from |-> Me ]

\* sendMessage's entry for a send the client refused for encryption
encryptionFailedMessage(t) ==
  [ id |-> "encryption-failed-" \o ToString(t), datetime |-> t,
    body |-> "Message may not be delivered", direction |-> "out", from |-> Me ]

\* messageReceivedSubject, messageSentSubject, messageSubject .next(recipient)
Signal(name, i) == [name |-> name, rcpt |-> i]
received(i) == <<Signal("messageReceived", i), Signal("message", i)>>
sentSignals(i) == <<Signal("messageSent", i), Signal("message", i)>>

\* how a sendMessage call ended: the promise, and the entry it left behind
NoSend == [orig |-> 0, error |-> "none", settled |-> "none", rcpt |-> 0, entry |-> ""]
Settled(orig, error, settled, rcpt, entry) ==
  [orig |-> orig, error |-> error, settled |-> settled, rcpt |-> rcpt, entry |-> entry]

\* how a handleMatrixMessage run ended: "no-room" and "invalid" at its
\* filters, "no-recipient" without a target, "placeholder" for an undecryptable
\* event, "suppressed" for a fresh outgoing one, "stored" otherwise
NoIngest == [ev |-> NoEvent, hist |-> FALSE, rcpt |-> 0, outcome |-> "none"]
Ingested(ev, hist, rcpt, outcome) ==
  [ev |-> ev, hist |-> hist, rcpt |-> rcpt, outcome |-> outcome]

\* a step that emits no signal and ends no sendMessage or handleMatrixMessage run
Quiet == emitted' = <<>> /\ lastSend' = NoSend /\ lastIngest' = NoIngest

\* the room sendMessage sends into: the DM room of a contact, the room itself
sdkRoomOf(r) == IF r.type = "contact" THEN DmRoom ELSE r.jid

(***************************************************************************)
(* Continuations of the async functions. pc names the await the function   *)
(* is suspended at:                                                        *)
(*   getUser          getOrCreateContactById, await getUser                *)
(*   dtrAwait         determineTargetRecipient, return await getOrCreate.. *)
(*   hmmAwait         handleMatrixMessage, await determineTargetRecipient  *)
(*   sendTextMessage  sendMessage, await client.sendTextMessage            *)
(*   sendResume       sendMessage, await getOrCreateContactById            *)
(*   joinRoom         createRoom, its awaits on the network                *)
(***************************************************************************)
K(kind, pc, ev, hist, jid, orig) ==
  [ kind |-> kind, pc |-> pc, ev |-> ev, hist |-> hist, jid |-> jid,
    cur |-> <<>>, rcpt |-> 0, orig |-> orig, msg |-> Missing ]

\* timeline.getPaginationToken(Direction.Backward): null at the start of the
\* room's history
NoToken == 0

\* a call of a history operation: its locals, the await it is suspended at,
\* whether a batch failed, how the promise settled, and the rooms, contacts
\* or unawaited events whose processing threw
Backfill(op) ==
  [ op |-> op, pc |-> "idle", rcpt |-> 0, room |-> "", rooms |-> <<>>,
    paginationToken |-> NoToken, totalLoaded |-> 0, count |-> 0, todo |-> <<>>,
    tasks |-> <<>>, timer |-> 0, failed |-> "", outcome |-> "",
    outer |-> "", contacts |-> <<>>, visited |-> <<>>, errors |-> {} ]

\* no history operation has been called
NoBackfill == Backfill("none")

MacroBoundary == syncLoop = <<>> /\ microtasks = <<>>
MicrotaskReady(pc) ==
  syncLoop = <<>> /\ microtasks # <<>> /\ Head(microtasks).pc = pc

pendingSends == {n \in 1..Len(pendingNet) : pendingNet[n].kind = "send"}
pendingCreates == {n \in 1..Len(pendingNet) : pendingNet[n].kind = "createRoom"}

\* the services after construction and setClient(client, encryptionSupported),
\* with the client joined to rooms whose live timelines have the pagination
\* tokens of one of the histories
ServicesInit(rooms, supported, histories) ==
  /\ recipients = <<>>
  /\ contactsSubject = <<>>
  /\ roomsSubject = <<>>
  /\ roomStore = EmptyIndex
  /\ clientRooms = rooms
  /\ timeline = {}
  /\ now = 1
  /\ loads = 0
  /\ syncLoop = <<>>
  /\ microtasks = <<>>
  /\ pendingNet = <<>>
  /\ resolved = {}
  /\ sent = {}
  /\ emitted = <<>>
  /\ lastSend = NoSend
  /\ encryptionSupported \in supported
  /\ lastIngest = NoIngest
  /\ backfill = NoBackfill
  /\ tokens \in histories
  /\ roomMembers = [r \in RoomIds |-> joinedAtStart(r)]

\* the same with every live timeline at the start of its room's history
ChatInitWith(rooms, supported) ==
  ServicesInit(rooms, supported, {[r \in rooms |-> NoToken]})

\* setClient(client): encryptionSupported defaults to false
ChatInit == ChatInitWith({DmRoom}, {FALSE})

(***************************************************************************)
(* MatrixContactListService.loadContacts: a new Contact for every DM user, *)
(* and the list replaces the subject's value. Its awaits read nothing the  *)
(* other operations write, so the run is taken at its final next().        *)
(***************************************************************************)
LoadContacts ==
  /\ MacroBoundary
  /\ loads < MaxLoads
  /\ Len(recipients) < MaxRecipients
  /\ recipients' = Append(recipients, NewRecipient("contact", U1, "loadContacts"))
  /\ contactsSubject' = <<Len(recipients) + 1>>
  /\ loads' = loads + 1
  /\ UNCHANGED <<roomsSubject, roomStore, clientRooms, timeline, now, syncLoop,
                 microtasks, pendingNet, resolved, sent, storeVars,
                 encryptionSupported, backfill, tokens, roomMembers>>
  /\ Quiet

(***************************************************************************)
(* MatrixRoomService.createRoom: the server creates the room and the       *)
(* client learns of it; after its last await the method constructs a Room  *)
(* and puts it in the room list.                                           *)
(***************************************************************************)
CreateRoomRequest ==
  /\ MacroBoundary
  /\ GroupRoom \notin clientRooms
  /\ pendingCreates = {}
  /\ clientRooms' = clientRooms \cup {GroupRoom}
  /\ pendingNet' = Append(pendingNet, K("createRoom", "joinRoom", NoEvent, FALSE, GroupRoom, 0))
  /\ UNCHANGED <<recipients, contactsSubject, roomsSubject, roomStore, timeline, now,
                 loads, syncLoop, microtasks, resolved, sent, storeVars,
                 encryptionSupported, backfill, tokens, roomMembers>>
  /\ Quiet

CreateRoomComplete(n) ==
  /\ MacroBoundary
  /\ n \in pendingCreates
  /\ Len(recipients) < MaxRecipients
  /\ recipients' =
       Append(recipients, NewRecipient("room", pendingNet[n].jid, "createRoom"))
  /\ roomsSubject' = addRoomToList(roomsSubject, pendingNet[n].jid, Len(recipients) + 1)
  /\ pendingNet' = removeAt(pendingNet, n)
  /\ UNCHANGED <<contactsSubject, roomStore, clientRooms, timeline, now, loads,
                 syncLoop, microtasks, resolved, sent, storeVars,
                 encryptionSupported, backfill, tokens, roomMembers>>
  /\ Quiet

\* MatrixRoomService.joinRoom(roomJid) for a room the client holds: after
\* its await the method constructs a Room and puts it in the room list
JoinRoom(room) ==
  /\ MacroBoundary
  /\ room \in clientRooms
  /\ Len(recipients) < MaxRecipients
  /\ \A i \in Range(roomsSubject) : recipients[i].jid # room
  /\ recipients' = Append(recipients, NewRecipient("room", room, "joinRoom"))
  /\ roomsSubject' = addRoomToList(roomsSubject, room, Len(recipients) + 1)
  /\ UNCHANGED <<contactsSubject, roomStore, clientRooms, timeline, now, loads,
                 syncLoop, microtasks, pendingNet, resolved, sent, storeVars,
                 encryptionSupported, backfill, tokens, roomMembers>>
  /\ Quiet

(***************************************************************************)
(* The event source. Deliver: the SDK hands a burst of live events to the   *)
(* ClientEvent.Sync and RoomEvent.Timeline handlers, which call            *)
(* handleMatrixMessage(e, room, false) for each without awaiting it; an    *)
(* event is a new one from the counterpart or the echo of a message sent   *)
(* here, and both handlers may see the same event. Replay: a history pass  *)
(* (processExistingRoomTimelines, loadMostRecentMessages) calls            *)
(* handleMatrixMessage(e, room, true) and awaits it.                       *)
(***************************************************************************)
NewIncoming ==
  { Event(id, room, U1, ts) :
      id \in IncomingIds \ eventIds(timeline), room \in clientRooms, ts \in ServerTimes }

Echoes == {e \in timeline : e.sender = Me}

Batches(evs) == UNION {[1..n -> evs] : n \in 1..MaxBatch}

\* a handler that goes through the events of the response from the last to
\* the first
Deliver_reversed(batch) ==
  /\ MacroBoundary
  /\ \A e1, e2 \in timeline \cup Range(batch) : e1.id = e2.id => e1 = e2
  /\ timeline' = timeline \cup Range(batch)
  /\ syncLoop' = [i \in 1..Len(batch) |->
                    [ev |-> batch[Len(batch) + 1 - i], hist |-> FALSE]]
  /\ UNCHANGED <<recipients, contactsSubject, roomsSubject, roomStore, clientRooms,
                 now, loads, microtasks, pendingNet, resolved, sent, storeVars,
                 encryptionSupported, backfill, tokens, roomMembers>>
  /\ Quiet

Deliver(batch) ==
  /\ MacroBoundary
  /\ \A e1, e2 \in timeline \cup Range(batch) : e1.id = e2.id => e1 = e2
  /\ timeline' = timeline \cup Range(batch)
  /\ syncLoop' = [i \in 1..Len(batch) |-> [ev |-> batch[i], hist |-> FALSE]]
  /\ UNCHANGED <<recipients, contactsSubject, roomsSubject, roomStore, clientRooms,
                 now, loads, microtasks, pendingNet, resolved, sent, storeVars,
                 encryptionSupported, backfill, tokens, roomMembers>>
  /\ Quiet

Replay(ev) ==
  /\ MacroBoundary
  /\ ev \in timeline
  /\ syncLoop' = <<[ev |-> ev, hist |-> TRUE]>>
  /\ UNCHANGED <<recipients, contactsSubject, roomsSubject, roomStore, clientRooms,
                 timeline, now, loads, microtasks, pendingNet, resolved, sent, storeVars,
                 encryptionSupported, backfill, tokens, roomMembers>>
  /\ Quiet

(***************************************************************************)
(* getOrCreateContactById(jidString) called from outside the message       *)
(* service, with the address of the counterpart as the server gives it or  *)
(* with a resource part. A caller may make a second call before the first  *)
(* has resumed.                                                            *)
(***************************************************************************)
MaxLookups == 2
U1Web == "@u1/web"
ResolverInputs == {U1, U1Web, U2}

GetOrCreateContactById(jid) ==
  /\ syncLoop = <<>>
  /\ Len(microtasks) < MaxLookups
  /\ \A n \in 1..Len(microtasks) : microtasks[n].kind = "lookup"
  /\ IF findContact(contactsSubject, jid) # 0
     THEN /\ resolved' = resolved \cup {<<bare(jid), findContact(contactsSubject, jid)>>}
          /\ UNCHANGED microtasks
     ELSE /\ microtasks' = Append(microtasks,
               [K("lookup", "getUser", NoEvent, FALSE, jid, 0) EXCEPT !.cur = contactsSubject])
          /\ UNCHANGED resolved
  /\ UNCHANGED <<recipients, contactsSubject, roomsSubject, roomStore, clientRooms,
                 timeline, now, loads, syncLoop, pendingNet, sent, storeVars,
                 encryptionSupported, backfill, tokens, roomMembers>>
  /\ Quiet

(***************************************************************************)
(* handleMatrixMessage up to its first await, with the synchronous parts   *)
(* of determineTargetRecipient and getOrCreateContactById it runs into.    *)
(***************************************************************************)
HandleMatrixMessage ==
  /\ syncLoop # <<>>
  /\ LET call == Head(syncLoop)
         ev   == call.ev
         msg  == IF isDecryptionFailure(ev) THEN failureMessage(ev) ELSE eventMessage(ev)
         jid  == otherMember(ev.room)
         k    == [K("ingest", "hmmAwait", ev, call.hist, "", 0) EXCEPT !.msg = <<msg>>]
     IN  /\ syncLoop' = Tail(syncLoop)
         /\ IF ev.room \notin clientRooms \/ ~hasEssentials(ev)
            THEN /\ UNCHANGED <<recipients, roomStore, microtasks, resolved>>
                 /\ lastIngest' = Ingested(ev, call.hist, 0,
                      IF ev.room \notin clientRooms THEN "no-room" ELSE "invalid")
            ELSE IF isDmRoom(ev.room)
            THEN /\ UNCHANGED <<recipients, roomStore>>
                 /\ IF jid = ""
                    THEN /\ UNCHANGED <<microtasks, resolved>>
                         /\ lastIngest' = Ingested(ev, call.hist, 0, "no-recipient")
                    ELSE IF findContact(contactsSubject, jid) # 0
                    THEN /\ lastIngest' = NoIngest
                         /\ microtasks' = Append(microtasks,
                              [k EXCEPT !.pc = "dtrAwait", !.jid = jid,
                                        !.rcpt = findContact(contactsSubject, jid)])
                         /\ resolved' = resolved \cup
                              {<<bare(jid), findContact(contactsSubject, jid)>>}
                    ELSE /\ lastIngest' = NoIngest
                         /\ microtasks' = Append(microtasks,
                              [k EXCEPT !.pc = "getUser", !.jid = jid,
                                        !.cur = contactsSubject])
                         /\ UNCHANGED resolved
            ELSE /\ canGetOrCreateRoom(ev.room)
                 /\ lastIngest' = NoIngest
                 /\ recipients' = getOrCreateRoom(ev.room).recipients
                 /\ roomStore' = getOrCreateRoom(ev.room).roomStore
                 /\ microtasks' = Append(microtasks,
                      [k EXCEPT !.rcpt = getOrCreateRoom(ev.room).room])
                 /\ UNCHANGED resolved
  /\ UNCHANGED <<contactsSubject, roomsSubject, clientRooms, timeline, now, loads,
                 pendingNet, sent, storeVars,
                 encryptionSupported, backfill, tokens, roomMembers>>
  /\ emitted' = <<>>
  /\ lastSend' = NoSend

\* getOrCreateContactById after await getUser: construct the Contact and
\* publish the list read before the await, extended by it
ResumeGetUser ==
  /\ MicrotaskReady("getUser")
  /\ Len(recipients) < MaxRecipients
  /\ LET k == Head(microtasks)
         new == Len(recipients) + 1
     IN  /\ recipients' = Append(recipients, NewRecipient("contact", k.jid, "resolver"))
         /\ contactsSubject' = Append(k.cur, new)
         /\ resolved' = resolved \cup {<<bare(k.jid), new>>}
         /\ microtasks' =
              IF k.kind = "lookup" THEN Tail(microtasks)
              ELSE Append(Tail(microtasks),
                     [k EXCEPT !.pc = IF k.kind = "ingest" THEN "dtrAwait"
                                      ELSE IF k.kind = "send" THEN "sendResume"
                                      ELSE "encResume",
                               !.rcpt = new])
  /\ UNCHANGED <<roomsSubject, roomStore, clientRooms, timeline, now, loads, syncLoop,
                 pendingNet, sent, storeVars,
                 encryptionSupported, backfill, tokens, roomMembers>>
  /\ Quiet

\* determineTargetRecipient after return await getOrCreateContactById
ResumeDetermineTargetRecipient ==
  /\ MicrotaskReady("dtrAwait")
  /\ microtasks' = Append(Tail(microtasks), [Head(microtasks) EXCEPT !.pc = "hmmAwait"])
  /\ UNCHANGED <<recipients, contactsSubject, roomsSubject, roomStore, clientRooms,
                 timeline, now, loads, syncLoop, pendingNet, resolved, sent, storeVars,
                 encryptionSupported, backfill, tokens, roomMembers>>
  /\ Quiet

\* signals emitted before the test for fresh outgoing messages
ingestSignals_beforeFilter(k) ==
  IF k.rcpt = 0 THEN <<>>
  ELSE IF k.msg[1].direction = "in" THEN received(k.rcpt)
  ELSE sentSignals(k.rcpt)

\* the signals of handleMatrixMessage: none without a recipient or for a fresh
\* outgoing message, messageReceived for a placeholder or an incoming message,
\* messageSent for a historical outgoing one, and message after either
ingestSignals(k) ==
  IF k.rcpt = 0 THEN <<>>
  ELSE IF isDecryptionFailure(k.ev) THEN received(k.rcpt)
  ELSE IF k.msg[1].direction = "out" /\ ~k.hist THEN <<>>
  ELSE IF k.msg[1].direction = "in" THEN received(k.rcpt)
  ELSE sentSignals(k.rcpt)

\* the branch handleMatrixMessage ends in after await determineTargetRecipient
ingestOutcome(k) ==
  IF k.rcpt = 0 THEN "no-recipient"
  ELSE IF isDecryptionFailure(k.ev) THEN "placeholder"
  ELSE IF k.msg[1].direction = "out" /\ ~k.hist THEN "suppressed"
  ELSE "stored"

\* handleMatrixMessage after await determineTargetRecipient: the placeholder
\* of an undecryptable event is stored; a fresh outgoing message is skipped;
\* any other message is stored
ResumeHandleMatrixMessage ==
  /\ MicrotaskReady("hmmAwait")
  /\ LET k == Head(microtasks)
         m == k.msg[1]
     IN  /\ recipients' =
               IF k.rcpt = 0 THEN recipients
               ELSE IF isDecryptionFailure(k.ev) THEN storeAdd(recipients, k.rcpt, m)
               ELSE IF m.direction = "out" /\ ~k.hist THEN recipients
               ELSE storeAdd(recipients, k.rcpt, m)
         /\ microtasks' = Tail(microtasks)
  /\ UNCHANGED <<contactsSubject, roomsSubject, roomStore, clientRooms, timeline, now,
                 loads, syncLoop, pendingNet, resolved, sent, storeVars,
                 encryptionSupported, backfill, tokens, roomMembers>>
  /\ emitted' = ingestSignals(Head(microtasks))
  /\ lastSend' = NoSend
  /\ lastIngest' = Ingested(Head(microtasks).ev, Head(microtasks).hist,
                            Head(microtasks).rcpt, ingestOutcome(Head(microtasks)))

(***************************************************************************)
(* sendMessage. The call finds the SDK room (await of an async function    *)
(* that returns at once) and calls client.sendTextMessage; nothing else    *)
(* runs in between, so the call is taken up to that network await.         *)
(***************************************************************************)
SendMessage(orig) ==
  /\ MacroBoundary
  /\ orig \in 1..Len(recipients)
  /\ Cardinality(pendingSends) < MaxPending
  /\ sdkRoomOf(recipients[orig]) \in clientRooms
  /\ pendingNet' = Append(pendingNet,
       K("send", "sendTextMessage", NoEvent, FALSE, recipients[orig].jid, orig))
  /\ UNCHANGED <<recipients, contactsSubject, roomsSubject, roomStore, clientRooms,
                 timeline, now, loads, syncLoop, microtasks, resolved, sent, storeVars,
                 encryptionSupported, backfill, tokens, roomMembers>>
  /\ Quiet

\* the server accepts the message: the event exists, with the server's time
ServerAccept(n, id, ts) ==
  /\ MacroBoundary
  /\ n \in pendingSends
  /\ pendingNet[n].ev = NoEvent
  /\ id \in SendIds \ eventIds(timeline)
  /\ LET e == Event(id, sdkRoomOf(recipients[pendingNet[n].orig]), Me, ts)
     IN  /\ timeline' = timeline \cup {e}
         /\ pendingNet' = [pendingNet EXCEPT ![n].ev = e]
  /\ UNCHANGED <<recipients, contactsSubject, roomsSubject, roomStore, clientRooms,
                 now, loads, syncLoop, microtasks, resolved, sent, storeVars,
                 encryptionSupported, backfill, tokens, roomMembers>>
  /\ Quiet

\* sendTextMessage resolves with the event id: build newMessage at local time
\* t, resolve the target (Contact: getOrCreateContactById; Room:
\* getOrCreateRoom, then addMessage at once)
SendReply(n, t) ==
  /\ MacroBoundary
  /\ n \in pendingSends
  /\ pendingNet[n].ev # NoEvent
  /\ t >= now
  /\ now' = t
  /\ pendingNet' = removeAt(pendingNet, n)
  /\ LET k    == [pendingNet[n] EXCEPT !.msg = <<newMessage(pendingNet[n].ev.id, t)>>]
         orig == recipients[k.orig]
         room == sdkRoomOf(orig)
     IN  IF orig.type = "contact"
         THEN /\ UNCHANGED <<recipients, roomStore, sent>>
              /\ Quiet
              /\ IF findContact(contactsSubject, k.jid) # 0
                 THEN /\ microtasks' =
                           <<[k EXCEPT !.pc = "sendResume",
                                       !.rcpt = findContact(contactsSubject, k.jid)]>>
                      /\ resolved' = resolved \cup
                           {<<bare(k.jid), findContact(contactsSubject, k.jid)>>}
                 ELSE /\ microtasks' =
                           <<[k EXCEPT !.pc = "getUser", !.cur = contactsSubject]>>
                      /\ UNCHANGED resolved
         ELSE /\ canGetOrCreateRoom(room)
              /\ recipients' =
                   storeAdd(getOrCreateRoom(room).recipients, getOrCreateRoom(room).room,
                            k.msg[1])
              /\ roomStore' = getOrCreateRoom(room).roomStore
              /\ sent' = sent \cup {[id |-> k.ev.id, rcpt |-> getOrCreateRoom(room).room]}
              /\ emitted' = sentSignals(getOrCreateRoom(room).room)
              /\ lastSend' = Settled(k.orig, "none", "resolved",
                                     getOrCreateRoom(room).room, k.msg[1].id)
              /\ lastIngest' = NoIngest
              /\ UNCHANGED <<microtasks, resolved>>
  /\ UNCHANGED <<contactsSubject, roomsSubject, clientRooms, timeline, loads, syncLoop,
                 storeVars,
                 encryptionSupported, backfill, tokens, roomMembers>>

\* sendMessage after await getOrCreateContactById: the optimistic insert
ResumeSendMessage ==
  /\ MicrotaskReady("sendResume")
  /\ LET k == Head(microtasks)
     IN  /\ recipients' = storeAdd(recipients, k.rcpt, k.msg[1])
         /\ sent' = sent \cup {[id |-> k.ev.id, rcpt |-> k.rcpt]}
         /\ microtasks' = Tail(microtasks)
  /\ UNCHANGED <<contactsSubject, roomsSubject, roomStore, clientRooms, timeline, now,
                 loads, syncLoop, pendingNet, resolved, storeVars,
                 encryptionSupported, backfill, tokens, roomMembers>>
  /\ emitted' = sentSignals(Head(microtasks).rcpt)
  /\ lastSend' = Settled(Head(microtasks).orig, "none", "resolved", Head(microtasks).rcpt,
                         Head(microtasks).msg[1].id)
  /\ lastIngest' = NoIngest

\* sendTextMessage rejects: the outer catch stores the failed-message entry
\* in the recipient the caller passed, and rethrows
SendFails(n, t) ==
  /\ MacroBoundary
  /\ n \in pendingSends
  /\ pendingNet[n].ev = NoEvent
  /\ t >= now
  /\ now' = t
  /\ recipients' = storeAdd(recipients, pendingNet[n].orig, failedMessage(t))
  /\ pendingNet' = removeAt(pendingNet, n)
  /\ UNCHANGED <<contactsSubject, roomsSubject, roomStore, clientRooms, timeline, loads,
                 syncLoop, microtasks, resolved, sent, storeVars,
                 encryptionSupported, backfill, tokens, roomMembers>>
  /\ emitted' = <<Signal("message", pendingNet[n].orig)>>
  /\ lastSend' = Settled(pendingNet[n].orig, "send", "rejected", pendingNet[n].orig,
                         failedMessage(t).id)
  /\ lastIngest' = NoIngest

\* sendTextMessage has returned the event id and await getOrCreateContactById
\* throws: the same outer catch stores the failed-message entry in the
\* recipient the caller passed, and rethrows
SendGetUserFails(t) ==
  /\ MicrotaskReady("getUser")
  /\ Head(microtasks).kind = "send"
  /\ t >= now
  /\ now' = t
  /\ recipients' = storeAdd(recipients, Head(microtasks).orig, failedMessage(t))
  /\ microtasks' = Tail(microtasks)
  /\ UNCHANGED <<contactsSubject, roomsSubject, roomStore, clientRooms, timeline, loads,
                 syncLoop, pendingNet, resolved, sent, storeVars,
                 encryptionSupported, backfill, tokens, roomMembers>>
  /\ emitted' = <<Signal("message", Head(microtasks).orig)>>
  /\ lastSend' = Settled(Head(microtasks).orig, "getUser", "rejected",
                         Head(microtasks).orig, failedMessage(t).id)
  /\ lastIngest' = NoIngest

\* sendTextMessage rejects with an encryption error: the inner catch builds
\* the warning entry, resolves the target (Contact: await
\* getOrCreateContactById; Room: await getOrCreateRoomForRecipient, then
\* getOrCreateRoom) and goes on after that await
SendFailsEncryption(n, t) ==
  /\ MacroBoundary
  /\ n \in pendingSends
  /\ pendingNet[n].ev = NoEvent
  /\ t >= now
  /\ now' = t
  /\ pendingNet' = removeAt(pendingNet, n)
  /\ LET k == [pendingNet[n] EXCEPT !.kind = "sendEnc",
                                    !.msg = <<encryptionFailedMessage(t)>>]
         found == findContact(contactsSubject, k.jid)
     IN  IF recipients[k.orig].type = "contact"
         THEN IF found # 0
              THEN /\ microtasks' = <<[k EXCEPT !.pc = "encResume", !.rcpt = found]>>
                   /\ resolved' = resolved \cup {<<bare(k.jid), found>>}
              ELSE /\ microtasks' = <<[k EXCEPT !.pc = "getUser", !.cur = contactsSubject]>>
                   /\ UNCHANGED resolved
         ELSE /\ microtasks' = <<[k EXCEPT !.pc = "encResume"]>>
              /\ UNCHANGED resolved
  /\ UNCHANGED <<recipients, contactsSubject, roomsSubject, roomStore, clientRooms,
                 timeline, loads, syncLoop, sent, storeVars,
                 encryptionSupported, backfill, tokens, roomMembers>>
  /\ Quiet

\* the inner catch after its await: the warning entry is stored in the target,
\* message$ is signalled, and sendMessage returns without throwing
ResumeEncryptionFailed ==
  /\ MicrotaskReady("encResume")
  /\ LET k == Head(microtasks)
         room == sdkRoomOf(recipients[k.orig])
         target == IF k.rcpt # 0 THEN k.rcpt ELSE getOrCreateRoom(room).room
     IN  /\ k.rcpt = 0 => canGetOrCreateRoom(room)
         /\ recipients' =
              storeAdd(IF k.rcpt # 0 THEN recipients ELSE getOrCreateRoom(room).recipients,
                       target, k.msg[1])
         /\ roomStore' = IF k.rcpt # 0 THEN roomStore ELSE getOrCreateRoom(room).roomStore
         /\ microtasks' = Tail(microtasks)
         /\ emitted' = <<Signal("message", target)>>
         /\ lastSend' = Settled(k.orig, "encryption", "resolved", target, k.msg[1].id)
         /\ lastIngest' = NoIngest
  /\ UNCHANGED <<contactsSubject, roomsSubject, clientRooms, timeline, now, loads,
                 syncLoop, pendingNet, resolved, sent, storeVars,
                 encryptionSupported, backfill, tokens, roomMembers>>

(***************************************************************************)
(* The ingestion pipeline on its own: events of every kind the client can  *)
(* hold, handed to handleMatrixMessage by each of the four paths.          *)
(***************************************************************************)
\* the events of a conversation: text messages, redacted and undecryptable
\* ones, from the counterpart and from the local user, in the direct room, in
\* the direct room without counterpart and in a room the client does not know
WellFormedEvents ==
  UNION { { Event(id, room, sender, ts),
            [Event(id, room, sender, ts) EXCEPT !.redacted = TRUE, !.content = "empty"],
            [Event(id, room, sender, ts) EXCEPT !.type = "m.room.encrypted",
                                                !.undecryptable = TRUE] } :
          id \in IncomingIds, room \in {DmRoom, SoloRoom, GoneRoom},
          sender \in {U1, Me}, ts \in ServerTimes }

\* events without a sender, without content, without an id, without a timestamp
DefectiveEvents ==
  UNION { { [Event(id, DmRoom, U1, 1) EXCEPT !.sender = ""],
            [Event(id, DmRoom, U1, 1) EXCEPT !.content = ""],
            [Event(id, DmRoom, U1, 1) EXCEPT !.id = NoId],
            [Event(id, DmRoom, U1, 1) EXCEPT !.ts = 0] } : id \in IncomingIds }

IngestEvents == WellFormedEvents \cup DefectiveEvents

Paths == {"timeline", "sync", "existing", "recent"}

isMessageType(ev) == ev.type \in {"m.room.message", "m.room.encrypted"}

\* what each path hands on to handleMatrixMessage: the RoomEvent.Timeline
\* handler, the ClientEvent.Sync handler, processExistingRoomTimelines and
\* loadMostRecentMessages
pathAdmits(path, ev) ==
  /\ ev.room \in clientRooms
  /\ CASE path = "timeline" -> ~ev.redacted /\ isMessageType(ev)
       [] path = "sync"     -> isMessageType(ev)
       [] path = "existing" -> \/ ev.type = "m.room.message"
                               \/ ev.type = "m.room.encrypted" /\ encryptionSupported
       [] path = "recent"   -> ev.type = "m.room.message" /\ ~ev.redacted

\* the two history passes call handleMatrixMessage(event, roomId, true)
fromHistory(path) == path \in {"existing", "recent"}

Ingest(path, ev) ==
  /\ MacroBoundary
  /\ syncLoop' = IF pathAdmits(path, ev)
                 THEN <<[ev |-> ev, hist |-> fromHistory(path)]>> ELSE <<>>
  /\ UNCHANGED <<recipients, contactsSubject, roomsSubject, roomStore, clientRooms,
                 timeline, now, loads, microtasks, pendingNet, resolved, sent, storeVars,
                 encryptionSupported, backfill, tokens, roomMembers>>
  /\ Quiet

\* the SDK takes in a membership event between two deliveries: the user is
\* among room.getJoinedMembers() from then on
MemberJoins(room, user) ==
  /\ MacroBoundary
  /\ room \in clientRooms
  /\ \A n \in 1..Len(roomMembers[room]) : roomMembers[room][n] # user
  /\ roomMembers' = [roomMembers EXCEPT ![room] = Append(@, user)]
  /\ UNCHANGED <<recipients, contactsSubject, roomsSubject, roomStore, clientRooms,
                 timeline, now, loads, syncLoop, microtasks, pendingNet, resolved, sent,
                 storeVars, encryptionSupported, backfill, tokens>>
  /\ Quiet

\* getOrCreateContactById throws at await getUser: determineTargetRecipient
\* catches and returns undefined
GetUserFails ==
  /\ MicrotaskReady("getUser")
  /\ Head(microtasks).kind = "ingest"
  /\ microtasks' = Append(Tail(microtasks), [Head(microtasks) EXCEPT !.pc = "hmmAwait"])
  /\ UNCHANGED <<recipients, contactsSubject, roomsSubject, roomStore, clientRooms,
                 timeline, now, loads, syncLoop, pendingNet, resolved, sent, storeVars,
                 encryptionSupported, backfill, tokens, roomMembers>>
  /\ Quiet

(***************************************************************************)
(* The observer of one store's messages$. AddMessageObserved is addMessage *)
(* with the ReplaySubject's buffer and the observer's deliveries followed; *)
(* Subscribe is messages$.subscribe(observer).                             *)
(***************************************************************************)
AddMessageObserved(arg) ==
  /\ AddMessage(arg)
  /\ LET emits == messagesSubject'.count > messagesSubject.count
     IN  /\ replay' = IF emits THEN bufferNext(replay, messagesSubject'.last) ELSE replay
         /\ observed' = IF emits /\ subscribed
                        THEN Append(observed, messagesSubject'.last) ELSE observed
  /\ UNCHANGED <<subscribed, snapshots, chatVars>>

(***************************************************************************)
(* The arrays messagesSubject.next is given. AddMessageEmitting is         *)
(* addMessage with the array of its emitMessages recorded; in the revision *)
(* of unnamed/part_000 emitMessages also sets a timer of 0 ms whose        *)
(* callback, TimerFires, emits a copy of messages as they are by then.     *)
(***************************************************************************)
MaxSnapshots == 4

AddMessageEmitting(arg) ==
  /\ Len(snapshots.log) + snapshots.timers + (IF snapshots.deferred THEN 2 ELSE 1)
       <= MaxSnapshots
  /\ AddMessage(arg)
  /\ snapshots' =
       IF messagesSubject'.count > messagesSubject.count
       THEN [snapshots EXCEPT
               !.log = Append(@, snapshotOf(messages', Len(@) + 1)),
               !.timers = IF snapshots.deferred THEN @ + 1 ELSE @]
       ELSE snapshots
  /\ UNCHANGED <<replay, subscribed, observed, chatVars>>

\* setTimeout(() => this.messagesSubject.next([...this.messages]), 0)
TimerFires ==
  /\ snapshots.timers > 0
  /\ snapshots' = [snapshots EXCEPT
                     !.log = Append(@, snapshotOf(messages, Len(@) + 1)),
                     !.timers = @ - 1]
  /\ messagesSubject' = emitMessages(theStore).messagesSubject
  /\ UNCHANGED <<messages, messageIdToMessage, lastCall, replay, subscribed, observed,
                 chatVars>>

Subscribe ==
  /\ ~subscribed
  /\ subscribed' = TRUE
  /\ observed' = startWith(<<>>, replay)
  /\ UNCHANGED <<messages, messageIdToMessage, messagesSubject, lastCall, replay,
                 snapshots, chatVars>>

(***************************************************************************)
(* History operations: loadMostRecentMessages, loadMessagesBeforeOldest-   *)
(* Message and loadCompleteHistory of MatrixMessageService and             *)
(* loadInitialMessageHistory of MatrixConnectionService. Each asks the     *)
(* server for older events with client.scrollback and is suspended until   *)
(* the request resolves, rejects or, where the code races it against a     *)
(* timer, the timer fires. The server owes no answer.                      *)
(*   backfill.pc: idle, scrollback (await of the request), handle (await   *)
(*   of handleMatrixMessage), done                                         *)
(***************************************************************************)
NumTokens == 2
Tokens == 0..NumTokens

maxMessages == 100
batchSize == 20
initialMaxMessages == 50
initialBatchSize == 20
completeBatchSize == 100
maxRoomsToProcess == 10

\* the operation's promise resolves
resolves(b) == [b EXCEPT !.pc = "done", !.outcome = "resolved"]

\* the operation's promise rejects
rejects(b) == [b EXCEPT !.pc = "done", !.outcome = "rejected"]

\* a catch that hands the error on to the caller
batchFailed_rethrow(b, why) == rejects([b EXCEPT !.failed = why])

\* the catch around one batch: console.warn, break, and the method returns
batchFailed(b, why) == resolves([b EXCEPT !.failed = why])

\* events in timeline order
RECURSIVE inOrder(_)
inOrder(evs) ==
  IF evs = {} THEN <<>>
  ELSE LET e == CHOOSE x \in evs : \A y \in evs : x.ts <= y.ts
       IN  <<e>> \o inOrder(evs \ {e})

RECURSIVE roomList(_)
roomList(rooms) ==
  IF rooms = {} THEN <<>>
  ELSE LET r == CHOOSE x \in rooms : TRUE
       IN  <<r>> \o roomList(rooms \ {r})

\* what the server can still return for a room: messages of the counterpart
\* and a membership event
HistoryEvents(room) ==
  {Event(id, room, otherMember(room), 1) : id \in IncomingIds}
    \cup {[Event("$member", room, otherMember(room), 1) EXCEPT !.type = "m.room.member"]}

\* the answers to scrollback(room, limit): events the timeline does not hold
\* yet, at most limit of them
Chunks(room, limit) ==
  {c \in SUBSET HistoryEvents(room) :
     /\ Cardinality(c) <= limit
     /\ eventIds(c) \cap eventIds(timeline) = {}
     /\ \A e1, e2 \in c : e1.id = e2.id => e1 = e2}

\* rooms.find(r => members.length === 2 && members has me && members has jid)
dmRoomsOf(jid) ==
  {r \in clientRooms : LET members == joinedMembers(r)
                       IN  /\ Len(members) = 2
                           /\ Me \in Range(members)
                           /\ jid \in Range(members)}

\* the room lookup of loadMostRecentMessages and loadMessagesBeforeOldestMessage
roomsOfRecipient(i) ==
  IF recipients[i].type = "contact" THEN dmRoomsOf(recipients[i].jid)
  ELSE {recipients[i].jid} \cap clientRooms

\* events.filter(e => e.getType() === 'm.room.message' && !e.isRedacted())
messageEvents(evs, room) ==
  inOrder({e \in evs : e.room = room /\ e.type = "m.room.message" /\ ~e.redacted})

historyIdle == backfill.pc \in {"idle", "done"} /\ backfill.outer = "" /\ MacroBoundary

onlyBackfill ==
  UNCHANGED <<recipients, contactsSubject, roomsSubject, roomStore, clientRooms,
              now, loads, microtasks, pendingNet, resolved, sent, storeVars,
              encryptionSupported, roomMembers>>

(***************************************************************************)
(* loadMostRecentMessages(recipient)                                       *)
(***************************************************************************)
\* the call up to its first await: the room lookup and the token test
startRecent(call, i) ==
  LET found == roomsOfRecipient(i)
      room == CHOOSE r \in found : TRUE
      b == [call EXCEPT !.rcpt = i]
  IN  IF found = {} THEN resolves(b)
      ELSE IF tokens[room] = NoToken THEN resolves([b EXCEPT !.room = room])
      ELSE [b EXCEPT !.room = room, !.paginationToken = tokens[room],
                     !.pc = "scrollback"]

LoadMostRecentMessages(i) ==
  /\ historyIdle
  /\ backfill' = startRecent(Backfill("loadMostRecentMessages"), i)
  /\ UNCHANGED <<timeline, tokens, syncLoop>>
  /\ onlyBackfill
  /\ Quiet

\* the end of one pass of the while loop, after the batch's events were handled;
\* the next pass sets a timer of its own
recentLoopEnd(b, newToken) ==
  LET total == b.totalLoaded + b.count
      c == [b EXCEPT !.totalLoaded = total, !.todo = <<>>]
  IN  IF newToken = NoToken \/ newToken = b.paginationToken THEN resolves(c)
      ELSE IF total < maxMessages
           THEN [c EXCEPT !.paginationToken = newToken, !.pc = "scrollback",
                          !.timer = 1 - @]
           ELSE resolves([c EXCEPT !.paginationToken = newToken])

\* scrollback resolved first: the filter, and the first handleMatrixMessage call
RecentBatchArrives(chunk, tok) ==
  /\ backfill.op = "loadMostRecentMessages" /\ backfill.pc = "scrollback"
  /\ MacroBoundary
  /\ chunk \in Chunks(backfill.room, batchSize)
  /\ timeline' = timeline \cup chunk
  /\ tokens' = [tokens EXCEPT ![backfill.room] = tok]
  /\ LET evs == messageEvents(timeline', backfill.room)
         b == [backfill EXCEPT !.count = Len(evs)]
     IN  IF evs = <<>>
         THEN /\ backfill' = recentLoopEnd(b, tok)
              /\ syncLoop' = <<>>
         ELSE /\ backfill' = [b EXCEPT !.pc = "handle", !.todo = Tail(evs)]
              /\ syncLoop' = <<[ev |-> Head(evs), hist |-> TRUE]>>
  /\ onlyBackfill
  /\ Quiet

\* await handleMatrixMessage returned: the next event, or the end of the pass
RecentNextEvent ==
  /\ backfill.op = "loadMostRecentMessages" /\ backfill.pc = "handle"
  /\ MacroBoundary
  /\ IF backfill.todo # <<>>
     THEN /\ backfill' = [backfill EXCEPT !.todo = Tail(@)]
          /\ syncLoop' = <<[ev |-> Head(backfill.todo), hist |-> TRUE]>>
     ELSE /\ backfill' = recentLoopEnd(backfill, tokens[backfill.room])
          /\ syncLoop' = <<>>
  /\ UNCHANGED <<timeline, tokens>>
  /\ onlyBackfill
  /\ Quiet

\* scrollback rejected first
RecentBatchFails ==
  /\ backfill.op = "loadMostRecentMessages" /\ backfill.pc = "scrollback"
  /\ MacroBoundary
  /\ backfill' = batchFailed(backfill, "error")
  /\ UNCHANGED <<timeline, tokens, syncLoop>>
  /\ onlyBackfill
  /\ Quiet

\* the 5000 ms timer rejected first
RecentBatchTimesOut ==
  /\ backfill.op = "loadMostRecentMessages" /\ backfill.pc = "scrollback"
  /\ MacroBoundary
  /\ backfill' = batchFailed(backfill, "timeout")
  /\ UNCHANGED <<timeline, tokens, syncLoop>>
  /\ onlyBackfill
  /\ Quiet

(***************************************************************************)
(* loadMessagesBeforeOldestMessage(recipient): one request, awaited        *)
(* without a timer                                                         *)
(***************************************************************************)
LoadMessagesBeforeOldestMessage(i) ==
  /\ historyIdle
  /\ LET found == roomsOfRecipient(i)
         room == CHOOSE r \in found : TRUE
         b == [Backfill("loadMessagesBeforeOldestMessage") EXCEPT !.rcpt = i]
     IN  backfill' =
           IF found = {} THEN resolves(b)
           ELSE IF {e \in timeline : e.room = room} = {} \/ tokens[room] = NoToken
                THEN resolves([b EXCEPT !.room = room])
                ELSE [b EXCEPT !.room = room, !.pc = "scrollback"]
  /\ UNCHANGED <<timeline, tokens, syncLoop>>
  /\ onlyBackfill
  /\ Quiet

OldestBatchArrives(chunk, tok) ==
  /\ backfill.op = "loadMessagesBeforeOldestMessage" /\ backfill.pc = "scrollback"
  /\ MacroBoundary
  /\ chunk \in Chunks(backfill.room, completeBatchSize)
  /\ timeline' = timeline \cup chunk
  /\ tokens' = [tokens EXCEPT ![backfill.room] = tok]
  /\ backfill' = resolves(backfill)
  /\ UNCHANGED syncLoop
  /\ onlyBackfill
  /\ Quiet

OldestBatchFails ==
  /\ backfill.op = "loadMessagesBeforeOldestMessage" /\ backfill.pc = "scrollback"
  /\ MacroBoundary
  /\ backfill' = batchFailed(backfill, "error")
  /\ UNCHANGED <<timeline, tokens, syncLoop>>
  /\ onlyBackfill
  /\ Quiet

(***************************************************************************)
(* loadCompleteHistory(): room after room, a first request and then one    *)
(* more for as long as the timeline has a pagination token; no timer       *)
(***************************************************************************)
completeNextRoom(b) ==
  IF b.rooms = <<>> THEN resolves(b)
  ELSE [b EXCEPT !.room = Head(b.rooms), !.rooms = Tail(b.rooms), !.pc = "scrollback"]

LoadCompleteHistory ==
  /\ historyIdle
  /\ backfill' = completeNextRoom([Backfill("loadCompleteHistory")
                                     EXCEPT !.rooms = roomList(clientRooms)])
  /\ UNCHANGED <<timeline, tokens, syncLoop>>
  /\ onlyBackfill
  /\ Quiet

CompleteBatchArrives(chunk, tok) ==
  /\ backfill.op = "loadCompleteHistory" /\ backfill.pc = "scrollback"
  /\ MacroBoundary
  /\ chunk \in Chunks(backfill.room, completeBatchSize)
  /\ timeline' = timeline \cup chunk
  /\ tokens' = [tokens EXCEPT ![backfill.room] = tok]
  /\ backfill' = IF tok # NoToken THEN backfill ELSE completeNextRoom(backfill)
  /\ UNCHANGED syncLoop
  /\ onlyBackfill
  /\ Quiet

CompleteBatchFails ==
  /\ backfill.op = "loadCompleteHistory" /\ backfill.pc = "scrollback"
  /\ MacroBoundary
  /\ backfill' = completeNextRoom([backfill EXCEPT !.failed = "error"])
  /\ UNCHANGED <<timeline, tokens, syncLoop>>
  /\ onlyBackfill
  /\ Quiet

(***************************************************************************)
(* MatrixConnectionService.loadInitialMessageHistory(): one task for each  *)
(* of the first ten rooms, all started at once; each task races every      *)
(* request against the room's one 5000 ms timer. The 15000 ms timer of the *)
(* outer race is set after the rooms' timers, so every task has ended      *)
(* before it is due; the method resolves when all tasks have settled.      *)
(***************************************************************************)
firstRooms(rooms) ==
  SubSeq(rooms, 1, IF Len(rooms) < maxRoomsToProcess THEN Len(rooms) ELSE maxRoomsToProcess)

Task(pc, token, total) == [pc |-> pc, paginationToken |-> token, totalLoaded |-> total]

allSettled(b) ==
  IF \A r \in DOMAIN b.tasks : b.tasks[r].pc = "done" THEN resolves(b) ELSE b

LoadInitialMessageHistory ==
  /\ historyIdle
  /\ LET rooms == Range(firstRooms(roomList(clientRooms)))
         tasks == [r \in rooms |->
                     IF tokens[r] = NoToken THEN Task("done", NoToken, 0)
                     ELSE Task("scrollback", tokens[r], 0)]
     IN  backfill' = allSettled([Backfill("loadInitialMessageHistory")
                                   EXCEPT !.tasks = tasks, !.pc = "scrollback"])
  /\ UNCHANGED <<timeline, tokens, syncLoop>>
  /\ onlyBackfill
  /\ Quiet

\* one pass of the task's while loop after its request resolved
initialLoopEnd(task, count, newToken) ==
  LET total == task.totalLoaded + count
  IN  IF newToken = NoToken \/ newToken = task.paginationToken
      THEN Task("done", task.paginationToken, total)
      ELSE IF total < initialMaxMessages
           THEN Task("scrollback", newToken, total)
           ELSE Task("done", newToken, total)

awaitingInitial(room) ==
  /\ backfill.op = "loadInitialMessageHistory" /\ backfill.pc = "scrollback"
  /\ room \in DOMAIN backfill.tasks
  /\ backfill.tasks[room].pc = "scrollback"
  /\ MacroBoundary

InitialBatchArrives(room, chunk, tok) ==
  /\ awaitingInitial(room)
  /\ chunk \in Chunks(room, initialBatchSize)
  /\ timeline' = timeline \cup chunk
  /\ tokens' = [tokens EXCEPT ![room] = tok]
  /\ LET count == Len(messageEvents(timeline', room))
     IN  backfill' = allSettled([backfill EXCEPT
                        !.tasks[room] = initialLoopEnd(@, count, tok)])
  /\ UNCHANGED syncLoop
  /\ onlyBackfill
  /\ Quiet

initialBatchFailed(room, why) ==
  allSettled([backfill EXCEPT !.tasks[room].pc = "done", !.failed = why])

InitialBatchFails(room) ==
  /\ awaitingInitial(room)
  /\ backfill' = initialBatchFailed(room, "error")
  /\ UNCHANGED <<timeline, tokens, syncLoop>>
  /\ onlyBackfill
  /\ Quiet

InitialBatchTimesOut(room) ==
  /\ awaitingInitial(room)
  /\ backfill' = initialBatchFailed(room, "timeout")
  /\ UNCHANGED <<timeline, tokens, syncLoop>>
  /\ onlyBackfill
  /\ Quiet

(***************************************************************************)
(* initializeAfterContactsLoaded: the handlers are set up, and after a     *)
(* wait of 2000 ms processExistingRoomTimelines goes through the timeline  *)
(* of every room and loadMessagesForExistingContacts calls                 *)
(* loadMostRecentMessages for every contact with a direct room. Any call   *)
(* into the SDK or into parseJid may throw.                                *)
(*   backfill.pc: handle (await of handleMatrixMessage), contact (between  *)
(*   two contacts), and the values of loadMostRecentMessages               *)
(***************************************************************************)
NumTimelineEvents == 1

TimelineName == [r \in {DmRoom, Dm2Room} |->
                   IF r = DmRoom THEN <<"$a1", "$a2", "$a3">> ELSE <<"$b1", "$b2", "$b3">>]

\* the events the first sync put into the timeline of a direct room
TimelineEvents(room) ==
  {Event(TimelineName[room][n], room, otherMember(room), n) : n \in 1..NumTimelineEvents}

NumFreshEvents == 2
FreshName == <<"$f1", "$f2", "$f3", "$f4">>

\* the events of the sync responses that arrive during the wait, all of the
\* first direct room
FreshEvents ==
  {Event(FreshName[n], DmRoom, otherMember(DmRoom), n) : n \in 1..NumFreshEvents}

\* the first sync response, taken in before the handlers exist
InitialSync(evs) ==
  /\ backfill.op = "none" /\ timeline = {} /\ evs # {}
  /\ MacroBoundary
  /\ timeline' = evs
  /\ UNCHANGED <<backfill, tokens, syncLoop>>
  /\ onlyBackfill
  /\ Quiet

\* the events of a room processExistingRoomTimelines hands on, in timeline order
existingEvents(room) ==
  inOrder({e \in timeline : e.room = room /\ pathAdmits("existing", e)})

\* for (const room of rooms): the next room, or the end of the pass
existingNextRoom(b) ==
  IF b.rooms = <<>> THEN resolves(b)
  ELSE [b EXCEPT !.room = Head(b.rooms), !.rooms = Tail(b.rooms),
                 !.visited = Append(@, Head(b.rooms)),
                 !.todo = existingEvents(Head(b.rooms)), !.pc = "handle"]

\* a catch around the whole loop: the pass ends at the first error
existingRoomFailed_abort(b) == resolves([b EXCEPT !.errors = @ \cup {b.room}])

\* the catch inside the loop: console.warn, and the loop goes on
existingRoomFailed(b) == existingNextRoom([b EXCEPT !.errors = @ \cup {b.room}])

ProcessExistingRoomTimelines ==
  /\ backfill.op = "none"
  /\ MacroBoundary
  /\ backfill' = existingNextRoom([Backfill("processExistingRoomTimelines")
                                     EXCEPT !.rooms = roomList(clientRooms)])
  /\ UNCHANGED <<timeline, tokens, syncLoop>>
  /\ onlyBackfill
  /\ Quiet

\* await handleMatrixMessage returned and the room has another event
ExistingNextEvent ==
  /\ backfill.op = "processExistingRoomTimelines" /\ backfill.pc = "handle"
  /\ MacroBoundary
  /\ backfill.todo # <<>>
  /\ backfill' = [backfill EXCEPT !.todo = Tail(@)]
  /\ syncLoop' = <<[ev |-> Head(backfill.todo), hist |-> TRUE]>>
  /\ UNCHANGED <<timeline, tokens>>
  /\ onlyBackfill
  /\ Quiet

\* the room's events are through: await determineTargetRecipient, which finds
\* the Contact or constructs it after getUser, and messageSubject.next for
\* it; nothing else is ready to run while the pass waits. Then the next room.
ExistingRefresh ==
  /\ backfill.op = "processExistingRoomTimelines" /\ backfill.pc = "handle"
  /\ MacroBoundary
  /\ backfill.todo = <<>>
  /\ LET jid == otherMember(backfill.room)
         found == findContact(contactsSubject, jid)
         new == Len(recipients) + 1
     IN  IF jid = ""
         THEN /\ UNCHANGED <<recipients, contactsSubject, resolved>>
              /\ emitted' = <<>>
         ELSE IF found # 0
         THEN /\ UNCHANGED <<recipients, contactsSubject>>
              /\ resolved' = resolved \cup {<<bare(jid), found>>}
              /\ emitted' = <<Signal("message", found)>>
         ELSE /\ Len(recipients) < MaxRecipients
              /\ recipients' = Append(recipients, NewRecipient("contact", jid, "resolver"))
              /\ contactsSubject' = Append(contactsSubject, new)
              /\ resolved' = resolved \cup {<<bare(jid), new>>}
              /\ emitted' = <<Signal("message", new)>>
  /\ backfill' = existingNextRoom(backfill)
  /\ UNCHANGED <<roomsSubject, roomStore, clientRooms, timeline, now, loads, syncLoop,
                 microtasks, pendingNet, sent, storeVars, encryptionSupported, tokens, roomMembers>>
  /\ lastSend' = NoSend
  /\ lastIngest' = NoIngest

\* handleMatrixMessage throws before its first await. A handler that does not
\* await the call goes on; processExistingRoomTimelines leaves the room;
\* loadMostRecentMessages leaves its loop.
HandleMatrixMessageThrows ==
  /\ syncLoop # <<>>
  /\ Head(syncLoop).ev.room \in clientRooms
  /\ hasEssentials(Head(syncLoop).ev)
  /\ syncLoop' = Tail(syncLoop)
  /\ backfill' =
       IF backfill.pc # "handle"
       THEN [backfill EXCEPT !.errors = @ \cup {Head(syncLoop).ev.id}]
       ELSE IF backfill.op = "processExistingRoomTimelines"
            THEN existingRoomFailed(backfill)
            ELSE batchFailed(backfill, "error")
  /\ UNCHANGED <<timeline, tokens>>
  /\ onlyBackfill
  /\ emitted' = <<>>
  /\ lastSend' = NoSend
  /\ lastIngest' = Ingested(Head(syncLoop).ev, Head(syncLoop).hist, 0, "threw")

(***************************************************************************)
(* loadMessagesForExistingContacts                                         *)
(***************************************************************************)
\* the catch inside the loop: console.warn, and the loop goes on
existingContactFailed(b, c) ==
  [b EXCEPT !.errors = @ \cup {c}, !.contacts = Tail(@), !.pc = "contact"]

LoadMessagesForExistingContacts ==
  /\ backfill.op = "processExistingRoomTimelines" /\ backfill.pc = "done"
  /\ MacroBoundary
  /\ backfill' = [Backfill("loadMostRecentMessages") EXCEPT
                    !.outer = "loadMessagesForExistingContacts",
                    !.contacts = contactsSubject, !.pc = "contact"]
  /\ UNCHANGED <<timeline, tokens, syncLoop>>
  /\ onlyBackfill
  /\ Quiet

betweenContacts ==
  /\ backfill.outer = "loadMessagesForExistingContacts" /\ backfill.pc = "contact"
  /\ MacroBoundary

\* for (const contact of contacts): the contact without a direct room is left
\* out, loadMostRecentMessages is called for any other
ExistingContactsNext ==
  /\ betweenContacts
  /\ backfill.contacts # <<>>
  /\ LET c == Head(backfill.contacts)
         call == [Backfill("loadMostRecentMessages") EXCEPT
                    !.outer = backfill.outer, !.contacts = backfill.contacts,
                    !.errors = backfill.errors,
                    !.visited = Append(backfill.visited, c)]
     IN  backfill' = IF dmRoomsOf(recipients[c].jid) = {}
                     THEN [backfill EXCEPT !.contacts = Tail(@)]
                     ELSE startRecent(call, c)
  /\ UNCHANGED <<timeline, tokens, syncLoop>>
  /\ onlyBackfill
  /\ Quiet

\* the room lookup of the contact throws
ExistingContactThrows ==
  /\ betweenContacts
  /\ backfill.contacts # <<>>
  /\ backfill' = existingContactFailed(backfill, Head(backfill.contacts))
  /\ UNCHANGED <<timeline, tokens, syncLoop>>
  /\ onlyBackfill
  /\ Quiet

\* await loadMostRecentMessages returned: contact.messageStore.forceEmission()
ExistingContactLoaded ==
  /\ backfill.outer = "loadMessagesForExistingContacts" /\ backfill.pc = "done"
  /\ MacroBoundary
  /\ recipients' = [recipients EXCEPT ![backfill.rcpt].messageStore = emitMessages(@)]
  /\ backfill' = [backfill EXCEPT !.contacts = Tail(@), !.pc = "contact"]
  /\ UNCHANGED <<contactsSubject, roomsSubject, roomStore, clientRooms, timeline, now,
                 loads, syncLoop, microtasks, pendingNet, resolved, sent, storeVars,
                 encryptionSupported, tokens, roomMembers>>
  /\ Quiet

\* the loop is through
ExistingContactsDone ==
  /\ betweenContacts
  /\ backfill.contacts = <<>>
  /\ backfill' = resolves([backfill EXCEPT !.op = "loadMessagesForExistingContacts",
                                           !.outer = ""])
  /\ UNCHANGED <<timeline, tokens, syncLoop>>
  /\ onlyBackfill
  /\ Quiet

(***************************************************************************)
(* Specifications                                                          *)
(***************************************************************************)
Init == StoreInit /\ ChatInit

Next ==
  \E arg \in MessageInputs :
    AddMessage(arg) /\ UNCHANGED chatVars /\ UNCHANGED streamVars

Spec == Init /\ [][Next]_vars

NextChat ==
  \/ LoadContacts
  \/ CreateRoomRequest
  \/ \E n \in 1..Len(pendingNet) : CreateRoomComplete(n)
  \/ \E batch \in Batches(NewIncoming \cup Echoes) : Deliver(batch)
  \/ \E ev \in timeline : Replay(ev)
  \/ HandleMatrixMessage
  \/ ResumeGetUser
  \/ ResumeDetermineTargetRecipient
  \/ ResumeHandleMatrixMessage
  \/ \E orig \in 1..Len(recipients) : SendMessage(orig)
  \/ \E n \in 1..Len(pendingNet), id \in SendIds, ts \in ServerTimes : ServerAccept(n, id, ts)
  \/ \E n \in 1..Len(pendingNet), t \in ServerTimes : SendReply(n, t)
  \/ ResumeSendMessage
  \/ \E n \in 1..Len(pendingNet), t \in ServerTimes : SendFails(n, t)

SpecChat == Init /\ [][NextChat]_vars

\* the ingestion pipeline alone, encryption support on or off
InitIngest == StoreInit /\ ChatInitWith({DmRoom, SoloRoom}, BOOLEAN)

NextIngest ==
  \/ \E path \in Paths, ev \in IngestEvents : Ingest(path, ev)
  \/ HandleMatrixMessage
  \/ ResumeGetUser
  \/ GetUserFails
  \/ ResumeDetermineTargetRecipient
  \/ ResumeHandleMatrixMessage

SpecIngest == InitIngest /\ [][NextIngest]_vars

\* the history operations on a direct room whose timeline starts with any
\* pagination token
InitHistory ==
  StoreInit /\ ServicesInit({DmRoom}, {FALSE}, [{DmRoom} -> Tokens])

\* the continuations the event loop runs when they are ready
HistoryProgress ==
  \/ HandleMatrixMessage
  \/ ResumeDetermineTargetRecipient
  \/ ResumeHandleMatrixMessage
  \/ RecentNextEvent

\* the timers
HistoryTimers ==
  \/ RecentBatchTimesOut
  \/ \E room \in clientRooms : InitialBatchTimesOut(room)

\* the calls of the operations and the answers of the server
HistoryCalls ==
  \/ LoadContacts
  \/ \E i \in 1..Len(recipients) : LoadMostRecentMessages(i)
  \/ \E i \in 1..Len(recipients) : LoadMessagesBeforeOldestMessage(i)
  \/ LoadCompleteHistory
  \/ LoadInitialMessageHistory
  \/ \E chunk \in SUBSET HistoryEvents(DmRoom), tok \in Tokens :
        \/ RecentBatchArrives(chunk, tok)
        \/ OldestBatchArrives(chunk, tok)
        \/ CompleteBatchArrives(chunk, tok)
        \/ \E room \in clientRooms : InitialBatchArrives(room, chunk, tok)
  \/ RecentBatchFails
  \/ OldestBatchFails
  \/ CompleteBatchFails
  \/ \E room \in clientRooms : InitialBatchFails(room)

NextHistory == HistoryProgress \/ HistoryTimers \/ HistoryCalls

SpecHistory == InitHistory /\ [][NextHistory]_vars

\* the event loop runs every ready continuation, and a timer fires unless the
\* request it was set for is answered first: loadMostRecentMessages sets one
\* for each request, loadInitialMessageHistory one for each room. Nothing
\* obliges the server to answer.
FairSpecHistory ==
  /\ SpecHistory
  /\ WF_vars(HistoryProgress)
  /\ \A k \in {0, 1} : WF_vars(RecentBatchTimesOut /\ backfill.timer = k)
  /\ \A room \in {DmRoom} : WF_vars(InitialBatchTimesOut(room))

\* initializeAfterContactsLoaded with two direct rooms: fresh batches during
\* the wait, the pass over the timelines, the loop over the contacts
InitPass ==
  StoreInit /\ ServicesInit({DmRoom, Dm2Room}, {FALSE}, [{DmRoom, Dm2Room} -> Tokens])

NextPass ==
  \/ \E evs \in SUBSET (TimelineEvents(DmRoom) \cup TimelineEvents(Dm2Room)) :
        InitialSync(evs)
  \/ \E batch \in Batches(FreshEvents) : backfill.op = "none" /\ Deliver(batch)
  \/ HandleMatrixMessage
  \/ HandleMatrixMessageThrows
  \/ ResumeGetUser
  \/ ResumeDetermineTargetRecipient
  \/ ResumeHandleMatrixMessage
  \/ ProcessExistingRoomTimelines
  \/ ExistingNextEvent
  \/ ExistingRefresh
  \/ LoadMessagesForExistingContacts
  \/ ExistingContactsNext
  \/ ExistingContactThrows
  \/ ExistingContactLoaded
  \/ ExistingContactsDone
  \/ \E chunk \in SUBSET (HistoryEvents(DmRoom) \cup HistoryEvents(Dm2Room)) :
        RecentBatchArrives(chunk, NoToken)
  \/ RecentNextEvent
  \/ RecentBatchFails
  \/ RecentBatchTimesOut

SpecPass == InitPass /\ [][NextPass]_vars

\* determineTargetRecipient on rooms of every membership: the live events of
\* direct rooms, of rooms of two and of three, handed over by the sync handler
RouteRooms == {DmRoom, SoloRoom, PairRoom, WatchedRoom, GroupRoom}
RouteEvents == {Event(id, room, U1, 1) : id \in IncomingIds, room \in RouteRooms}

InitRoute == StoreInit /\ ChatInitWith(RouteRooms, {FALSE})

NextRoute ==
  \/ \E ev \in RouteEvents : Ingest("sync", ev)
  \/ HandleMatrixMessage
  \/ ResumeGetUser
  \/ GetUserFails
  \/ ResumeDetermineTargetRecipient
  \/ ResumeHandleMatrixMessage

SpecRoute == InitRoute /\ [][NextRoute]_vars

\* the live events of a room of the local user and one other, one per sync
\* response, while a third user may join the room; the RoomStateEvent.Members
\* handler answers the membership event with a loadContacts run, which finds
\* the user of the direct room only
MembershipEvents ==
  {Event(FreshName[n], PairRoom, U2, n) : n \in 1..NumFreshEvents}

InitMembership == StoreInit /\ ChatInitWith({DmRoom, PairRoom}, {FALSE})

NextMembership ==
  \/ \E ev \in MembershipEvents : Ingest("sync", ev)
  \/ MemberJoins(PairRoom, U1)
  \/ (Len(roomMembers[PairRoom]) = 3 /\ LoadContacts)
  \/ HandleMatrixMessage
  \/ ResumeGetUser
  \/ ResumeDetermineTargetRecipient
  \/ ResumeHandleMatrixMessage

SpecMembership == InitMembership /\ [][NextMembership]_vars

\* the resolver of contacts called from outside, and reloads of the list
NextResolve ==
  \/ \E jid \in ResolverInputs : GetOrCreateContactById(jid)
  \/ ResumeGetUser
  \/ LoadContacts

SpecResolve == Init /\ [][NextResolve]_vars

\* one store and an observer of its messages$
NextStream ==
  \/ \E arg \in MessageInputs : AddMessageObserved(arg)
  \/ Subscribe

SpecStream == Init /\ [][NextStream]_vars

\* one store of either revision and the arrays it emits
InitEmit ==
  /\ messages = NewMessageStore.messages
  /\ messageIdToMessage = NewMessageStore.messageIdToMessage
  /\ messagesSubject = NewMessageStore.messagesSubject
  /\ lastCall = NoCall
  /\ replay = <<>>
  /\ subscribed = FALSE
  /\ observed = <<>>
  /\ snapshots \in {NoSnapshots(d) : d \in BOOLEAN}
  /\ ChatInit

NextEmit ==
  \/ \E arg \in MessageInputs : AddMessageEmitting(arg)
  \/ TimerFires

SpecEmit == InitEmit /\ [][NextEmit]_vars

\* live events of one direct conversation, numbered by getTs() in the order
\* the server sends them, text messages and undecryptable ones, handed to the
\* handlers in bursts that keep that order
OrderEvents ==
  FreshEvents \cup
    {[e EXCEPT !.type = "m.room.encrypted", !.undecryptable = TRUE] : e \in FreshEvents}

OrderedBatches ==
  {b \in Batches(OrderEvents) : \A i, j \in 1..Len(b) : i < j => b[i].ts < b[j].ts}

NextOrder ==
  \/ LoadContacts
  \/ \E batch \in OrderedBatches : Deliver(batch)
  \/ HandleMatrixMessage
  \/ ResumeGetUser
  \/ GetUserFails
  \/ ResumeDetermineTargetRecipient
  \/ ResumeHandleMatrixMessage

SpecOrder == Init /\ [][NextOrder]_vars

\* conversations opened as Room recipients: a group of three and a room of
\* the local user and one other, joined through the room service, with
\* messages sent into them and live events of the other members coming in
OpenedRooms == {PairRoom, GroupRoom}
RoomEvents == {Event(id, room, U2, 1) : id \in IncomingIds, room \in OpenedRooms}

InitRooms == StoreInit /\ ChatInitWith(OpenedRooms, {FALSE})

NextRooms ==
  \/ \E room \in OpenedRooms : JoinRoom(room)
  \/ \E orig \in 1..Len(recipients) : SendMessage(orig)
  \/ \E n \in 1..Len(pendingNet), id \in SendIds, ts \in ServerTimes : ServerAccept(n, id, ts)
  \/ \E n \in 1..Len(pendingNet), t \in ServerTimes : SendReply(n, t)
  \/ \E ev \in RoomEvents : Ingest("sync", ev)
  \/ HandleMatrixMessage
  \/ ResumeGetUser
  \/ ResumeDetermineTargetRecipient
  \/ ResumeHandleMatrixMessage

SpecRooms == InitRooms /\ [][NextRooms]_vars

\* the send path alone: every way a sendMessage call can end
NextSend ==
  \/ LoadContacts
  \/ CreateRoomRequest
  \/ \E n \in 1..Len(pendingNet) : CreateRoomComplete(n)
  \/ \E orig \in 1..Len(recipients) : SendMessage(orig)
  \/ \E n \in 1..Len(pendingNet), id \in SendIds, ts \in ServerTimes : ServerAccept(n, id, ts)
  \/ \E n \in 1..Len(pendingNet), t \in ServerTimes : SendReply(n, t)
  \/ ResumeSendMessage
  \/ \E n \in 1..Len(pendingNet), t \in ServerTimes : SendFails(n, t)
  \/ \E n \in 1..Len(pendingNet), t \in ServerTimes : SendFailsEncryption(n, t)
  \/ ResumeEncryptionFailed

SpecSend == Init /\ [][NextSend]_vars

\* sends to Contacts the resolver made, some of them dropped from the contact
\* table by a reload, so that sendMessage has to resolve the recipient anew
NextSendResolve ==
  \/ GetOrCreateContactById(U2)
  \/ ResumeGetUser
  \/ LoadContacts
  \/ \E orig \in 1..Len(recipients) : SendMessage(orig)
  \/ \E n \in 1..Len(pendingNet), id \in SendIds, ts \in ServerTimes : ServerAccept(n, id, ts)
  \/ \E n \in 1..Len(pendingNet), t \in ServerTimes : SendReply(n, t)
  \/ ResumeSendMessage
  \/ \E n \in 1..Len(pendingNet), t \in ServerTimes : SendFails(n, t)
  \/ \E t \in ServerTimes : SendGetUserFails(t)

SpecSendResolve == Init /\ [][NextSendResolve]_vars

(***************************************************************************)
(* Claims about MessageStore (checked under Spec)                          *)
(***************************************************************************)
occurrences(msgs, id) == {i \in 1..Len(msgs) : msgs[i].id = id}

\* C1: after any sequence of addMessage calls the messages sequence is
\* sorted ascending by datetime.
C1_SortedByDatetime ==
  \A i \in 1..(Len(messages) - 1) : messages[i].datetime <= messages[i + 1].datetime

\* C2: no two entries of the messages sequence have the same id.
C2_UniqueIds ==
  \A i, j \in 1..Len(messages) : i # j => messages[i].id # messages[j].id

\* a call met an id that was already stored, next to another stored message
C2_Witness ==
  /\ lastCall.outcome \in {"updated", "stale"}
  /\ Len(messages) >= 2

\* C3: from every store state and for every argument, a second addMessage
\* with the same argument leaves the sequence and the id index as the first
\* call left them.
C3_Idempotent ==
  \A arg \in MessageInputs :
    LET once  == addMessage(theStore, arg).store
        twice == addMessage(once, arg).store
    IN  /\ twice.messages = once.messages
        /\ twice.messageIdToMessage = once.messageIdToMessage

\* the latest call repeated a message that is stored exactly as given
C3_Witness ==
  /\ lastCall.outcome = "stale"
  /\ lastCall.arg # Missing
  /\ \E i \in 1..Len(messages) : messages[i] = lastCall.arg[1]

\* C4: a call with a stored id X and a strictly newer datetime leaves exactly
\* one entry with id X, and that entry and the index entry are the incoming
\* version.
C4_UpdateNotDuplicate ==
  [][ LET arg == lastCall'.arg
      IN  ( /\ arg # Missing
            /\ \E i \in 1..Len(messages) :
                 /\ messages[i].id = arg[1].id
                 /\ arg[1].datetime > messages[i].datetime )
          => /\ Cardinality(occurrences(messages', arg[1].id)) = 1
             /\ \A i \in occurrences(messages', arg[1].id) : messages'[i] = arg[1]
             /\ arg[1].id \in DOMAIN messageIdToMessage'
             /\ messageIdToMessage'[arg[1].id] = arg[1] ]_vars

\* the latest call replaced an older version that had another body
C4_Witness ==
  /\ lastCall.outcome = "updated"
  /\ lastCall.arg[1].body = "edited"
  /\ Len(messages) >= 2
  /\ messageIdToMessage[lastCall.arg[1].id] = lastCall.arg[1]

\* C5: a call with a stored id X and a datetime not newer than the stored one
\* changes neither the sequence nor the index and emits nothing.
C5_StaleRejected ==
  [][ LET arg == lastCall'.arg
      IN  ( /\ arg # Missing
            /\ \E i \in 1..Len(messages) :
                 /\ messages[i].id = arg[1].id
                 /\ arg[1].datetime <= messages[i].datetime )
          => UNCHANGED <<messages, messageIdToMessage, messagesSubject>> ]_vars

\* the latest call carried a stored id with an older or equal datetime and
\* another body
C5_Witness ==
  /\ lastCall.outcome = "stale"
  /\ \E i \in 1..Len(messages) :
       /\ messages[i].id = lastCall.arg[1].id
       /\ lastCall.arg[1].datetime <= messages[i].datetime
       /\ lastCall.arg[1].body # messages[i].body

idless(msgs) == \E i \in 1..Len(msgs) : ~TruthyStr(msgs[i].id)

\* C6: a call with a missing message or a message without id returns through
\* the entry guard, changes neither the sequence nor the index, emits
\* nothing; no id-less message is ever in the sequence, the index or a
\* snapshot.
C6_MalformedSafety ==
  [][ /\ ~idless(messages')
      /\ ~idless(messagesSubject'.last)
      /\ NoId \notin DOMAIN messageIdToMessage'
      /\ ( (lastCall'.arg = Missing \/ lastCall'.arg[1].id = NoId)
           => /\ lastCall'.outcome = "invalid"
              /\ UNCHANGED <<messages, messageIdToMessage, messagesSubject>> ) ]_vars

\* an id-less message was offered to a store that holds messages
C6_Witness ==
  /\ lastCall.outcome = "invalid"
  /\ lastCall.arg # Missing
  /\ Len(messages) >= 1


(***************************************************************************)
(* Recipients and conversations (SpecChat)                                 *)
(***************************************************************************)
quiescent == syncLoop = <<>> /\ microtasks = <<>> /\ pendingNet = <<>>

sorted(msgs) ==
  \A i, j \in 1..Len(msgs) : i < j => msgs[i].datetime <= msgs[j].datetime

storeOf(i) == recipients[i].messageStore

\* the Contact instances getOrCreateContactById has returned for a jid
returnedFor(jid) == {p[2] : p \in {q \in resolved : q[1] = jid}}

\* the Contact instances the contact table holds for a jid
registeredFor(jid) ==
  {contactsSubject[i] : i \in {n \in 1..Len(contactsSubject) :
                                 bare(recipients[contactsSubject[n]].jid) = jid}}

\* the instances the three tables hold for a jid
liveFor(jid) ==
  {i \in Range(contactsSubject) \cup Range(roomsSubject) \cup
         {roomStore[r] : r \in DOMAIN roomStore} : bare(recipients[i].jid) = jid}

\* C7: while the contact table is only written by getOrCreateContactById, all
\* of its calls for one identifier return the same Contact, and no second
\* Contact is ever constructed for an identifier, however the calls of the
\* ingestion pipeline and of sendMessage overlap.
C7_RecipientSingleton ==
  loads = 0 =>
    \A jid \in {U1, U2} :
      /\ Cardinality(returnedFor(jid)) <= 1
      /\ Cardinality(registeredFor(jid)) <= 1
      /\ Cardinality({i \in 1..Len(recipients) :
                        /\ recipients[i].type = "contact"
                        /\ bare(recipients[i].jid) = jid}) <= 1

\* C8: the contact table, the room list and roomStore together hold at most
\* one Recipient instance for an identifier, at every point in time.
C8_OneLiveInstance ==
  \A jid \in {U1, U2, DmRoom, GroupRoom} : Cardinality(liveFor(jid)) <= 1

\* C9: once sendMessage has stored its message under the server's event id E,
\* the store it chose holds exactly one message with id E, and no store holds
\* two, whatever deliveries of the echo of E came before or come after.
C9_ExactlyOneSent ==
  /\ \A s \in sent : Cardinality(occurrences(storeOf(s.rcpt).messages, s.id)) = 1
  /\ \A i \in 1..Len(recipients) : \A id \in SendIds :
       Cardinality(occurrences(storeOf(i).messages, id)) <= 1

\* a send has completed, and the echo of its event has been written to the
\* same store as well: the store published the message twice and holds it once
C9_Witness ==
  \E s \in sent :
    /\ microtasks = <<>> /\ syncLoop = <<>>
    /\ \E e \in Echoes : e.id = s.id
    /\ Len(storeOf(s.rcpt).messages) = 1
    /\ storeOf(s.rcpt).messages[1].id = s.id
    /\ storeOf(s.rcpt).messagesSubject.count >= 2

\* C10: when no handler, continuation or request is outstanding, every
\* conversation's store is in ascending datetime order.
C10_FinalOrderAscending ==
  quiescent => \A i \in 1..Len(recipients) : sorted(storeOf(i).messages)

(***************************************************************************)
(* The send path (SpecSend)                                                *)
(***************************************************************************)
\* the ids sendMessage gives the entry of a failed send
failureIds ==
  {failedMessage(t).id : t \in Times} \cup {encryptionFailedMessage(t).id : t \in Times}

\* C11: every sendMessage call whose send step failed has rejected, and has
\* left an outgoing entry with a failure id in the recipient's store.
C11_FailedSendSurfaced ==
  lastSend.error # "none" =>
    /\ lastSend.settled = "rejected"
    /\ lastSend.entry \in failureIds
    /\ \E i \in 1..Len(storeOf(lastSend.rcpt).messages) :
         /\ storeOf(lastSend.rcpt).messages[i].id = lastSend.entry
         /\ storeOf(lastSend.rcpt).messages[i].direction = "out"

(***************************************************************************)
(* The messages$ stream (SpecStream)                                       *)
(***************************************************************************)
\* C12: from the moment it subscribes the observer's latest value is the
\* store's current snapshot, the empty sequence for a store without messages;
\* subscription itself delivers a value, and every later change of the
\* store delivers the new snapshot.
C12_CurrentThenEveryChange ==
  /\ [](subscribed => /\ observed # <<>>
                      /\ observed[Len(observed)] = messages)
  /\ [][ /\ (~subscribed /\ subscribed' /\ messages = <<>>) => observed' = <<(<<>>)>>
         /\ (subscribed /\ messages' # messages) => observed' = Append(observed, messages')
       ]_vars

\* the observer subscribed to a store without messages, was given the empty
\* sequence, and has since been given the snapshot of a change
C12_Witness ==
  /\ subscribed
  /\ Len(observed) >= 2
  /\ observed[1] = <<>>
  /\ observed[2] # <<>>
  /\ observed[Len(observed)] = messages

(***************************************************************************)
(* The ingestion pipeline (SpecIngest)                                     *)
(***************************************************************************)
\* the store of recipient i after the step
storeOfNext(i) == recipients'[i].messageStore

isPlaceholder(m) == m.body = failureMessage(NoEvent).body

\* C13: when the clean version of an event arrives as fresh with a later
\* timestamp than the stored placeholder of the same id, or the undecryptable
\* version arrives as historical with an earlier timestamp than the stored
\* clean version, the store afterwards holds one message with that id, the
\* clean version.
C13_CleanVersionWins ==
  [][ LET r == lastIngest'
          before == storeOf(r.rcpt).messages
          after == storeOfNext(r.rcpt).messages
          cleanLater ==
            /\ ~isDecryptionFailure(r.ev) /\ ~r.ev.redacted /\ ~r.hist
            /\ \E i \in 1..Len(before) :
                 /\ before[i].id = r.ev.id
                 /\ isPlaceholder(before[i])
                 /\ before[i].datetime < r.ev.ts
          failureLater ==
            /\ isDecryptionFailure(r.ev) /\ r.hist
            /\ \E i \in 1..Len(before) :
                 /\ before[i].id = r.ev.id
                 /\ ~isPlaceholder(before[i])
                 /\ before[i].datetime > r.ev.ts
      IN  (r.rcpt # 0 /\ (cleanLater \/ failureLater)) =>
            /\ Cardinality(occurrences(after, r.ev.id)) = 1
            /\ \A i \in occurrences(after, r.ev.id) : ~isPlaceholder(after[i]) ]_vars

\* an event the pipeline has to drop: redacted, in no room the client knows,
\* or without sender, content, id or timestamp
mustDrop(ev) == ev.redacted \/ ev.room \notin clientRooms \/ ~hasEssentials(ev)

\* the step changes no message store and emits no signal
noStoreChange ==
  /\ \A i \in 1..Len(recipients) : storeOfNext(i) = storeOf(i)
  /\ emitted' = <<>>

\* C14: a handleMatrixMessage run for a redacted event, an event without a
\* room, or an event without sender, content, id or timestamp ends without
\* changing a message store and without a signal, on every path.
C14_FlawedEventsDropped ==
  [][ (lastIngest' # NoIngest /\ mustDrop(lastIngest'.ev)) => noStoreChange ]_vars

\* a room classified as direct in which nobody but the local user has joined
noCounterpart(roomId) ==
  /\ roomId \in clientRooms
  /\ isDmRoom(roomId)
  /\ \A i \in 1..Len(joinedMembers(roomId)) : joinedMembers(roomId)[i] = Me

\* the step constructs no Recipient and registers none
noRecipientChange ==
  /\ Len(recipients') = Len(recipients)
  /\ contactsSubject' = contactsSubject
  /\ roomsSubject' = roomsSubject
  /\ roomStore' = roomStore

\* C15: a run for an event of a direct room without counterpart, or one whose
\* contact could not be obtained, ends without a recipient: no message store
\* changes, no signal is emitted, no Recipient is constructed or registered;
\* and no Contact ever exists for the local user or for no user.
C15_NoFallbackRecipient ==
  /\ [][ LET r == lastIngest'
         IN  ( /\ r # NoIngest
               /\ r.outcome \notin {"no-room", "invalid"}
               /\ noCounterpart(r.ev.room) \/ r.rcpt = 0 )
             => /\ r.outcome = "no-recipient"
                /\ noStoreChange
                /\ noRecipientChange ]_vars
  /\ [][ ( /\ MicrotaskReady("getUser")
           /\ microtasks' # <<>>
           /\ microtasks'[Len(microtasks')].rcpt = 0 ) => noRecipientChange ]_vars
  /\ [](\A i \in 1..Len(recipients) :
          recipients[i].type = "contact" => recipients[i].jid \notin {Me, ""})

\* an event of the direct room without counterpart has just been dropped
C15_Witness ==
  /\ lastIngest.outcome = "no-recipient"
  /\ lastIngest.ev.room = SoloRoom
  /\ hasEssentials(lastIngest.ev)

\* the signals of a decryptable message of the same sender on the same path
normalSignals(ev, hist, i) ==
  IF directionOf(ev.sender) = "in" THEN received(i)
  ELSE IF hist THEN sentSignals(i)
  ELSE <<>>

\* C16: a run for an undecryptable m.room.encrypted event puts into the
\* recipient's store, unless the id is stored already, a placeholder with the
\* event's id, timestamp and sender and the reason as body, and emits the
\* signals a normal message of that sender would cause.
C16_PlaceholderAsNormalMessage ==
  [][ LET r == lastIngest'
          before == storeOf(r.rcpt).messages
          after == storeOfNext(r.rcpt).messages
      IN  r.outcome = "placeholder" =>
            /\ occurrences(before, r.ev.id) = {} =>
                 \E i \in 1..Len(after) :
                   /\ after[i].id = r.ev.id
                   /\ after[i].datetime = r.ev.ts
                   /\ after[i].from = r.ev.sender
                   /\ isPlaceholder(after[i])
            /\ emitted' = normalSignals(r.ev, r.hist, r.rcpt) ]_vars

\* C17: whenever the ingestion of a fresh outgoing event ends suppressed, the
\* store of its conversation already holds a message with the event's id,
\* which the send path inserted.
C17_SuppressedOnlyIfInserted ==
  [][ LET r == lastIngest'
      IN  r.outcome = "suppressed" =>
            occurrences(storeOf(r.rcpt).messages, r.ev.id) # {} ]_vars

running(op) == backfill.op = op /\ backfill.pc \notin {"idle", "done"}

\* C18: every call of a history operation ends, whatever the server does:
\* with a pagination token that never runs out and with requests that are
\* never answered.
C18_BackfillTerminates ==
  \A op \in {"loadMostRecentMessages", "loadMessagesBeforeOldestMessage",
             "loadCompleteHistory", "loadInitialMessageHistory"} :
    running(op) ~> ~running(op)

\* C19: the step of loadMostRecentMessages in which a batch fails or times
\* out ends the call: no further request, the promise resolves, and every
\* store holds the messages it held, in the same positions, with no signal.
C19_FailedBatchStopsQuietly ==
  [][ (RecentBatchFails \/ RecentBatchTimesOut) =>
        /\ backfill'.pc = "done"
        /\ backfill'.outcome = "resolved"
        /\ Len(recipients') = Len(recipients)
        /\ \A i \in 1..Len(recipients) : storeOfNext(i).messages = storeOf(i).messages
        /\ emitted' = <<>> ]_vars

\* a second batch timed out after the first one had put a message into the store
C19_Witness ==
  /\ backfill.op = "loadMostRecentMessages"
  /\ backfill.failed = "timeout"
  /\ backfill.totalLoaded > 0
  /\ storeOf(backfill.rcpt).messages # <<>>

\* the store of the conversation of the event's room holds the event's id
storedFor(ev) ==
  \E i \in 1..Len(recipients) :
    /\ recipients[i].type = "contact"
    /\ recipients[i].jid = otherMember(ev.room)
    /\ occurrences(storeOf(i).messages, ev.id) # {}

\* C20: an error in one room, one contact or one event does not keep the
\* others from being processed. When processExistingRoomTimelines has ended,
\* the events of every room that raised no error are stored; the events of a
\* fresh batch that raised no error are stored once the batch is through;
\* loadMessagesForExistingContacts has called loadMostRecentMessages for every
\* contact with a direct room that raised no error, and a call that returns
\* without a failed batch has stored the messages of its room.
C20_FailuresIsolated ==
  /\ ( backfill.op = "processExistingRoomTimelines" /\ backfill.pc = "done" ) =>
       \A e \in timeline :
         (e.room \notin backfill.errors /\ pathAdmits("existing", e)) => storedFor(e)
  /\ ( backfill.op = "none" /\ MacroBoundary ) =>
       \A e \in timeline :
         (e \in FreshEvents /\ e.id \notin backfill.errors) => storedFor(e)
  /\ ( backfill.op = "loadMessagesForExistingContacts" /\ backfill.pc = "done" ) =>
       \A n \in 1..Len(contactsSubject) :
         LET c == contactsSubject[n]
         IN  (c \notin backfill.errors /\ dmRoomsOf(recipients[c].jid) # {})
               => c \in Range(backfill.visited)
  /\ ( /\ backfill.outer = "loadMessagesForExistingContacts"
       /\ backfill.pc = "done"
       /\ backfill.failed = ""
       /\ backfill.paginationToken # NoToken ) =>
       \A n \in 1..Len(messageEvents(timeline, backfill.room)) :
         storedFor(messageEvents(timeline, backfill.room)[n])

\* the pass has ended, the first room raised an error and the event of the
\* second room is stored
C20_Witness ==
  /\ backfill.op = "processExistingRoomTimelines" /\ backfill.pc = "done"
  /\ Len(backfill.visited) = 2
  /\ backfill.errors = {backfill.visited[1]}
  /\ \E e \in timeline : e.room = backfill.visited[2] /\ storedFor(e)

\* the Contact instances of a bare address whose store holds messages
ownersOf(jid) ==
  {j \in 1..Len(recipients) :
     /\ recipients[j].type = "contact"
     /\ bare(recipients[j].jid) = jid
     /\ storeOf(j).messages # <<>>}

\* C21: once the store of a Contact holds messages, every later return of
\* getOrCreateContactById for that address is this Contact, also after
\* loadContacts has run again.
C21_StoreOwnerKept ==
  [][ \A p \in resolved' \ resolved : \A j \in ownersOf(p[1]) : p[2] = j ]_vars

\* C22: the calls of getOrCreateContactById for an address with and without
\* resource part return one Contact instance, and the contact table holds at
\* most one Contact of a bare address.
C22_OneContactPerBareAddress ==
  \A jid \in {U1} :
    /\ Cardinality(returnedFor(jid)) <= 1
    /\ Cardinality(registeredFor(jid)) <= 1

\* the classification the routing is to follow: the direct marker, or two
\* joined members of whom one is the local user
twoParty(roomId) ==
  \/ hasDMInviter(roomId)
  \/ \E other \in Range(joinedMembers(roomId)) \ {Me} :
       Range(joinedMembers(roomId)) = {Me, other}

\* the run of handleMatrixMessage that ends in this step got the Contact of
\* the other participant of its room
routedToContact(r) ==
  /\ r.rcpt # 0
  /\ recipients'[r.rcpt].type = "contact"
  /\ recipients'[r.rcpt].jid \in Range(joinedMembers(r.ev.room)) \ {Me}

\* it got the Room the message service keeps under the room id
routedToRoom(r) ==
  /\ r.rcpt # 0
  /\ recipients'[r.rcpt].type = "room"
  /\ recipients'[r.rcpt].jid = r.ev.room
  /\ r.ev.room \in DOMAIN roomStore'
  /\ roomStore'[r.ev.room] = r.rcpt

\* a run that got as far as determineTargetRecipient
routed(r) == r # NoIngest /\ r.outcome \notin {"no-room", "invalid"}

\* C23 as stated: determineTargetRecipient gives a Contact, that of the other
\* participant, exactly for a room with the direct marker or with two joined
\* members one of whom is the local user, and the Room registered under the
\* room id for every other room.
C23_ContactIffTwoParty ==
  [][ routed(lastIngest') =>
        IF twoParty(lastIngest'.ev.room) THEN routedToContact(lastIngest')
        ELSE routedToRoom(lastIngest') ]_vars

\* C23: determineTargetRecipient gives the Room registered under the room id
\* exactly for a room that has neither the direct marker nor two joined
\* members one of whom is the local user; for a room that has, it gives the
\* Contact of the other participant or nothing, and nothing when no joined
\* member but the local user exists.
C23_RoutedByMembership ==
  [][ routed(lastIngest') =>
        IF twoParty(lastIngest'.ev.room)
        THEN /\ routedToContact(lastIngest') \/ lastIngest'.rcpt = 0
             /\ Range(joinedMembers(lastIngest'.ev.room)) \ {Me} = {}
                  => lastIngest'.rcpt = 0
        ELSE routedToRoom(lastIngest') ]_vars

\* an event of the unmarked room of two has just been stored in the Contact
\* of the other member, with the Room of the group already registered
C23_Witness ==
  /\ lastIngest.ev.room = PairRoom
  /\ lastIngest.outcome = "stored"
  /\ lastIngest.rcpt # 0
  /\ recipients[lastIngest.rcpt].type = "contact"
  /\ recipients[lastIngest.rcpt].jid = U2
  /\ GroupRoom \in DOMAIN roomStore

\* the position after which a new message belongs: the last entry whose
\* datetime is not later than the new one, 0 for the front
lastNotLater(msgs, m) ==
  LET hits == {i \in 1..Len(msgs) : msgs[i].datetime <= m.datetime}
  IN  IF hits = {} THEN 0 ELSE Max(hits)

\* after is before with m put in behind position pos, every entry kept
insertedBehind(before, after, pos, m) ==
  /\ Len(after) = Len(before) + 1
  /\ after[pos + 1] = m
  /\ \A i \in 1..pos : after[i] = before[i]
  /\ \A i \in (pos + 1)..Len(before) : after[i + 1] = before[i]

\* C24: a call with a new id puts the message immediately behind the last
\* entry whose datetime is not later than its own, at the front when there is
\* none, and leaves every stored entry as it was and in its order.
C24_InsertedBehindLastNotLater ==
  [][ lastCall'.outcome = "inserted" =>
        insertedBehind(messages, messages',
                       lastNotLater(messages, lastCall'.arg[1]), lastCall'.arg[1]) ]_vars

\* C25: a call with a stored id and a strictly newer datetime puts the new
\* version at the index of the old one, leaves the length and every other
\* entry at its index, and emits exactly one snapshot, the sequence so
\* changed.
C25_UpdateInPlace ==
  [][ LET arg == lastCall'.arg
          index == findById(messages, arg[1].id)
      IN  ( /\ arg # Missing
            /\ index # 0
            /\ arg[1].datetime > messages[index].datetime )
          => /\ lastCall'.outcome = "updated"
             /\ Len(messages') = Len(messages)
             /\ messages'[index] = arg[1]
             /\ \A i \in 1..Len(messages) : i # index => messages'[i] = messages[i]
             /\ messagesSubject'.count = messagesSubject.count + 1
             /\ messagesSubject'.last = messages' ]_vars

\* the store [b, a] has just been updated with a later version of a, which
\* now stands behind an earlier b
C25_Witness ==
  /\ lastCall.outcome = "updated"
  /\ Len(messages) = 2
  /\ messages[1].id = "b"
  /\ messages[2] = lastCall.arg[1]
  /\ messages[2].id = "a"
  /\ messages[2].body = "edited"
  /\ messages[1].datetime < messages[2].datetime

\* what an observer holding the i-th emitted array reads in it now, and in
\* the next state
contentOf(i) ==
  IF snapshots.log[i].ref = 0 THEN messages ELSE snapshots.log[i].value

contentOfNext(i) ==
  IF snapshots'.log[i].ref = 0 THEN messages' ELSE snapshots'.log[i].value

\* C26: every array emitted on messages$ holds the whole sequence of the store
\* as it is at the moment of emission and is an array created for this
\* emission, an accepted addMessage emits one, and no step changes what an
\* array emitted earlier holds.
C26_FreshFullSnapshots ==
  [][ /\ Len(snapshots'.log) >= Len(snapshots.log)
      /\ \A i \in 1..Len(snapshots.log) : contentOfNext(i) = contentOf(i)
      /\ \A i \in (Len(snapshots.log) + 1)..Len(snapshots'.log) :
           /\ contentOfNext(i) = messages'
           /\ snapshots'.log[i].ref # 0
           /\ \A j \in 1..Len(snapshots'.log) :
                j # i => snapshots'.log[j].ref # snapshots'.log[i].ref
      /\ messages' # messages => Len(snapshots'.log) = Len(snapshots.log) + 1 ]_vars

\* in the revision with the timer, three arrays have been emitted, the first
\* of which holds an earlier sequence than the store has now
C26_Witness ==
  /\ snapshots.deferred
  /\ Len(snapshots.log) >= 3
  /\ contentOf(1) # messages
  /\ contentOf(Len(snapshots.log)) = messages
  /\ snapshots.timers = 0

\* got is a stored message with the given direction ("" for any) whose
\* datetime no stored message of that direction undercuts (sign = -1) or
\* exceeds (sign = 1); Missing when the store has none of that direction
extremal(got, d, sign) ==
  LET among == {i \in 1..Len(messages) : d = "" \/ messages[i].direction = d}
  IN  IF among = {} THEN got = Missing
      ELSE /\ got # Missing
           /\ \E i \in among : messages[i] = got[1]
           /\ \A i \in among : sign * messages[i].datetime <= sign * got[1].datetime

\* C27: in every state of the store oldestMessage is a stored message with
\* the least datetime, mostRecentMessage one with the greatest, and
\* mostRecentMessageReceived and mostRecentMessageSent the incoming and the
\* outgoing message with the greatest datetime, undefined when there is none.
C27_AccessorsExtremal ==
  /\ extremal(oldestMessage(theStore), "", -1)
  /\ extremal(mostRecentMessage(theStore), "", 1)
  /\ extremal(mostRecentMessageReceived(theStore), "in", 1)
  /\ extremal(mostRecentMessageSent(theStore), "out", 1)

\* the room ids for which the room list holds a Room, in the next state
openedAsRoom == {recipients'[i].jid : i \in Range(roomsSubject')}

\* recipient i is the Room the message service keeps under the room id
isRoomStoreEntry(i, room) ==
  /\ room \in DOMAIN roomStore'
  /\ roomStore'[room] = i

\* C28: for a room opened as a Room recipient, the message sendMessage stores
\* and every event handleMatrixMessage stores for the room id go to the store
\* of one Recipient, the Room the message service keeps under the room id,
\* whether the room has two joined members or more.
C28_EchoAndEventsInOneStore ==
  [][ /\ \A room \in DOMAIN roomStore : isRoomStoreEntry(roomStore[room], room)
      /\ ( /\ lastSend'.settled = "resolved"
           /\ lastSend'.entry # ""
           /\ recipients[lastSend'.orig].type = "room" )
         => isRoomStoreEntry(lastSend'.rcpt, recipients[lastSend'.orig].jid)
      /\ ( /\ lastIngest'.outcome \in {"stored", "placeholder"}
           /\ lastIngest'.ev.room \in openedAsRoom )
         => isRoomStoreEntry(lastIngest'.rcpt, lastIngest'.ev.room) ]_vars

\* the events whose handleMatrixMessage runs have begun or are still to be
\* called and have not ended, in the next state
unfinished ==
  {microtasks'[n].ev : n \in 1..Len(microtasks')} \cup
  {syncLoop'[n].ev : n \in 1..Len(syncLoop')}

triggeringId ==
  IF lastSend' # NoSend THEN lastSend'.entry ELSE lastIngest'.ev.id

\* C30: in a step in which messageSent$ or messageReceived$ fires for a
\* Recipient because a send completed or an event was ingested, the store of
\* that Recipient holds a message with the id of that event.
C30_StoredBeforeSignalled ==
  [][ \A n \in 1..Len(emitted') :
        emitted'[n].name \in {"messageSent", "messageReceived"} =>
          /\ lastSend' # NoSend \/ lastIngest' # NoIngest
          /\ triggeringId # NoId
          /\ occurrences(storeOfNext(emitted'[n].rcpt).messages, triggeringId) # {} ]_vars

\* messageSent$ has just fired for an own message that came in from history
C30_Witness ==
  /\ emitted # <<>>
  /\ emitted[1].name = "messageSent"
  /\ lastIngest.outcome = "stored"
  /\ lastIngest.hist
  /\ occurrences(storeOf(emitted[1].rcpt).messages, lastIngest.ev.id) # {}

\* C31: whenever the ingestion of a fresh outgoing event ends suppressed,
\* addMessage with the event's message would have left the store of its
\* conversation as it is, so that skipping the call changes the contents of
\* no store.
C31_SuppressionChangesNothing ==
  [][ LET r == lastIngest'
      IN  r.outcome = "suppressed" =>
            addMessage(storeOf(r.rcpt), <<eventMessage(r.ev)>>).store.messages
              = storeOfNext(r.rcpt).messages ]_vars

\* C32: a call that inserts a message with a datetime later than the epoch
\* puts it behind every stored message whose datetime is the epoch.
C32_EpochOrderedLikeAnyDatetime ==
  [][ ( /\ lastCall'.outcome = "inserted"
        /\ lastCall'.arg[1].datetime > 0 )
      => \A i \in 1..Len(messages') : \A j \in 1..Len(messages') :
           ( /\ messages'[i].datetime = 0
             /\ messages'[j] = lastCall'.arg[1] ) => i < j ]_vars

\* C33: messageReceived$ fires only in a step that ends the ingestion of an
\* event whose sender is not the local user.
C33_ReceivedOnlyForIncoming ==
  [][ \A n \in 1..Len(emitted') :
        emitted'[n].name = "messageReceived" =>
          /\ lastIngest' # NoIngest
          /\ directionOf(lastIngest'.ev.sender) = "in" ]_vars

\* C34: messageReceived$ fires for a Recipient only in a step in which
\* addMessage inserted a message into the store of that Recipient or replaced
\* one there; an event whose message the store holds already causes none.
C34_ReceivedOnlyOnChange ==
  [][ \A n \in 1..Len(emitted') :
        emitted'[n].name = "messageReceived" =>
          storeOfNext(emitted'[n].rcpt).messages # storeOf(emitted'[n].rcpt).messages ]_vars

\* recipient i is, in the next state, the instance successful sends and the
\* ingestion write to: the Contact the contact table holds first for its
\* address, the Room the message service keeps under its room id
canonicalNext(i) ==
  IF recipients'[i].type = "contact"
  THEN \E n \in 1..Len(contactsSubject') :
         /\ contactsSubject'[n] = i
         /\ \A m \in 1..(n - 1) :
              bare(recipients'[contactsSubject'[m]].jid) # bare(recipients'[i].jid)
  ELSE /\ recipients'[i].jid \in DOMAIN roomStore'
       /\ roomStore'[recipients'[i].jid] = i

\* C35: the step in which a sendMessage call fails puts the failed-message
\* entry into the store of the canonical Recipient of the conversation.
C35_FailedEntryInCanonicalStore ==
  [][ ( /\ lastSend'.settled = "rejected"
        /\ lastSend'.entry # "" )
      => /\ canonicalNext(lastSend'.rcpt)
         /\ occurrences(storeOfNext(lastSend'.rcpt).messages, lastSend'.entry) # {} ]_vars

\* C36: while loadContacts has not run, the contact table holds a Contact for
\* every address getOrCreateContactById has returned one for, however the
\* calls for different addresses overlap.
C36_NoRegistrationLost ==
  loads = 0 =>
    \A jid \in {U1, U2} : returnedFor(jid) # {} => registeredFor(jid) # {}

\* the recipients whose store holds an event of the room
holdersOf(room, evs) ==
  {i \in 1..Len(recipients) :
     \E ev \in evs : ev.room = room /\ occurrences(storeOf(i).messages, ev.id) # {}}

\* C37: for a fixed room id every event ingested during a session is routed
\* to the same Recipient, also when the joined membership of the room changes
\* between two events: the events of one room are never spread over the
\* stores of two recipients.
C37_OneRecipientPerRoom ==
  Cardinality(holdersOf(PairRoom, MembershipEvents)) <= 1

\* the sendMessage calls under way, each with the event its send returned
sendsInFlight ==
  {k \in Range(microtasks) \cup Range(pendingNet) : k.kind = "send"}

\* C38: a 'failed-' entry is inserted only if the client's send command did
\* not succeed: a sendMessage call whose send returned a server event id never
\* leaves a failed entry, also when resolving the canonical recipient throws.
C38_FailedOnlyIfSendFailed ==
  [][ ( /\ lastSend'.settled = "rejected"
        /\ lastSend'.entry # ""
        /\ occurrences(storeOfNext(lastSend'.rcpt).messages, lastSend'.entry) # {} )
      => \A k \in sendsInFlight : k.ev = NoEvent ]_vars

\* C39: in every reachable state of a MessageStore the keys of
\* messageIdToMessage are the ids of the entries of messages, and each id maps
\* to the very entry stored under that id.
C39_IndexMatchesMessages ==
  /\ DOMAIN messageIdToMessage = {messages[i].id : i \in 1..Len(messages)}
  /\ \A i \in 1..Len(messages) : messageIdToMessage[messages[i].id] = messages[i]

\* a store of two entries, one of them replaced by a newer version
C39_Witness ==
  /\ Len(messages) = NumIds
  /\ Cardinality(DOMAIN messageIdToMessage) = NumIds
  /\ lastCall.outcome = "updated"
  /\ \E i \in 1..Len(messages) : messages[i] = lastCall.arg[1]

====
